---- MODULE Spec2Model ----
(***************************************************************************)
(* A model of pyasco: the Agent's auto follow-up loop (agent/base.py),     *)
(* tool derivation and tool execution (agent/response_handler.py,          *)
(* agent/tool_handler.py), and the Code Executor (tools/code_execute.py)   *)
(* with its in-container execution server (tools/python_server.py).        *)
(*                                                                         *)
(* The module holds several specifications over one set of variables:      *)
(*   Spec            the Agent: ask and the replies it stores               *)
(*   SpecLife        the Code Executor: construct / execute / cleanup /     *)
(*                   reset, in local and in container mode                  *)
(*   SpecMailbox     one container session: host execute() against the      *)
(*                   server in the container                                *)
(*   SpecMailboxFair the same, with the host thread scheduled fairly        *)
(*   SpecSkills      the Skill Manager (services/skill_manager.py) on one   *)
(*                   skills directory                                       *)
(*   SpecChat        one chat between calls: get_response with and without  *)
(*                   streaming, the generator, confirm and reset            *)
(*   SpecTeach       learn_that_skill and improve_that_skill: the retry     *)
(*                   loops around the LLM turn and the Skill Manager call   *)
(*   SpecLoad        the skills of a turn: get_relevant_skills and          *)
(*                   process_skills inside get_response                     *)
(*   SpecExtract     the extraction of fenced blocks from a markdown text   *)
(*   SpecFront       the console loop and the Telegram bot                  *)
(*   SpecTools       one execute_tools call on a pending tool call          *)
(*   SpecButtons     the Yes / No buttons of one Telegram chat              *)
(* Each specification pins the variables of the others to their initial    *)
(* values.                                                                 *)
(***************************************************************************)
EXTENDS Integers, Sequences, FiniteSets, TLC

VARIABLES
    \* ---- Agent (agent/base.py) ----
    messages,     \* Agent.messages: the chat history
    apc,          \* position inside Agent.ask: "idle", "loop", "returned"
    loop_count,   \* ask's local loop_count
    max_loops,    \* ask's argument max_loops
    ask_base,     \* Len(messages) when the current ask was entered
    executed,     \* snippets handed to CodeExecutor.execute by the current ask
    gen,          \* the unconsumed streaming generator: <<>> or << its final reply >>
    \* ---- Code Executor and the Docker daemon (tools/code_execute.py) ----
    use_docker,   \* CodeExecutor.use_docker
    inst,         \* which CodeExecutor instance (process run) is the current one
    container,    \* CodeExecutor.container: Unset, NoneH or a container id
    cstatus,      \* container.status as cached by the last reload()
    km,           \* CodeExecutor.km: Unset, NoneH or a kernel id
    kc,           \* CodeExecutor.kc: Unset, NoneH or the kernel id its client talks to
    containers,   \* the daemon's containers: status, image id, filesystem, namespace, owner
    kernels,      \* the kernels started on the host: status and owner
    latest_state, \* the image tagged <repo>:latest_state: exists, id, filesystem
    img_count,    \* number of images committed so far (image ids)
    lpc,          \* position inside CodeExecutor.cleanup / reset
    lop,          \* the operation in progress: "none", "cleanup", "reset"
    old_image_id, \* cleanup's local old_image.id
    raised,       \* an exception has left cleanup()
    ncleanup,     \* cleanup() calls entered since the session was started
    acted,        \* the current cleanup() has called a kernel or container method
    faulted,      \* a call of the current cleanup() failed for a reason of the daemon's or the kernel's
    pre,          \* the session when the current operation was entered
    last_call,    \* the code of the last execute() call
    last_out,     \* what the last execute() call returned
    assigned,     \* the value the execute() calls since the last (re)start gave each name
    \* ---- one container session: host execute() and the server's mailbox ----
    hpc,          \* position of the host inside _execute_in_docker
    polls,        \* completed iterations of `for _ in range(1200)` of the call in progress
    req,          \* number of the current request; its exec_id
    hcode,        \* the code of the current request, until it is written to input.py
    result,       \* what _execute_in_docker returned
    f_input,      \* /tmp/pyasco/input.py
    f_exec_id,    \* /tmp/pyasco/exec_id: 0 when absent
    f_output,     \* /tmp/pyasco/output.json
    f_done,       \* /tmp/pyasco/done exists
    spc,          \* position of the server inside its main loop
    s_code,       \* the server's local `code`
    s_out,        \* the server's locals stdout, stderr
    kernel_ns,    \* the namespace of the kernel the server started
    srv_assigned, \* the value the submissions run in this session gave each name
    f_errlog,     \* lines appended to /tmp/pyasco/error.log
    \* ---- Skill Manager and its directory (services/skill_manager.py) ----
    sk_skills,    \* SkillManager.skills, in insertion order
    sk_files,     \* the code files of the skills directory, by file name
    sk_reqfile,   \* the lines of requirements.txt
    sk_manifest,  \* the "skills" list of manifest.json
    sk_last,      \* the last manager call: its arguments and what it returned
    sk_hist,      \* the learn / improve_skill calls made on this directory
    \* ---- one chat between calls (agent/base.py, agent/response_handler.py) ----
    sent,         \* the message list last handed to the LLM client
    sgen,         \* the generator of the last streaming turn
    yielded,      \* the chunks that generator has yielded so far
    ch_last,      \* the last call made on the Agent or on the generator
    \* ---- learn_that_skill / improve_that_skill (agent/base.py) ----
    t_pc,         \* "idle", or "loop" inside the retry loop
    t_op,         \* the call under way or last made: "learn" or "improve"
    skill_name,   \* improve_that_skill's skill_name
    retry_count,  \* the local retry_count
    t_attempts,   \* passes of the loop begun by the current call
    t_calls,      \* calls of learn / improve_skill made by the current call
    t_parsed,     \* the reply of the last pass parsed successfully
    t_outcome,    \* how the last call ended: "returned", "raised", "raised other"
    t_ncalls      \* calls of learn_that_skill / improve_that_skill made

VARIABLES
    \* ---- skills of a turn (agent/skill_handler.py, agent.py) ----
    ld_impl,      \* the Agent class in use: "agent/base.py" or "agent.py"
    ld_skills,    \* the `skills` field of each user message of the history
    ld_exec,      \* the executor.execute calls of process_skills since reset
    ld_prompts,   \* per user message sent: the skills its text describes
    ld_turns,     \* get_response calls made
    ld_raised,    \* the last get_response raised
    ld_roles      \* the roles of Agent.messages, in order

VARIABLES
    \* ---- extract_snippets (services/code_snippet_extractor.py) ----
    ex_doc,       \* the paragraphs and fenced blocks the text was written from
    ex_text,      \* markdown_text, a sequence of characters
    ex_out,       \* the list extract_snippets returned
    ex_done       \* extract_snippets has returned

VARIABLES
    \* ---- console front end (app/console.py main) ----
    co_pc,        \* "new", "prompt", "respond", "confirm" or "stopped"
    co_agent,     \* Agent(config) has returned
    co_loop_count,\* main's loop_count
    co_cleanups,  \* calls of agent.cleanup()
    co_stop,      \* why main stopped
    co_raised,    \* what the last turn raised, "none" if nothing
    co_shown,     \* what the console showed last
    co_inputs,    \* lines read at the prompt
    \* ---- Telegram front end (app/telegram_bot.py) ----
    tg_pc,        \* "new", "agent", "polling" or "stopped"
    tg_agent,     \* Agent(config) has returned
    tg_cleanups,  \* calls of agent.cleanup()
    tg_stop,      \* why main stopped
    tg_sent,      \* the messages the last handler sent
    tg_raised,    \* the last handler met an exception
    tg_escaped,   \* the last handler let an exception out
    tg_updates    \* updates handled

VARIABLES
    \* ---- one execute_tools call (agent/tool_handler.py) ----
    tl_snippets,  \* the snippets of the pending tool call
    tl_outs,      \* what executor.execute returned for each snippet it was given
    tl_results,   \* the list execute_tools returned
    tl_calls,     \* the executor.execute calls made, in order
    tl_done       \* execute_tools has returned

VARIABLES
    \* ---- the Yes / No buttons of the Telegram bot (app/telegram_bot.py) ----
    bt_last,      \* the last message of Agent.messages: which reply, and its tools
    bt_replies,   \* the replies stored so far
    bt_buttons,   \* the replies whose buttons are in the chat
    bt_runs       \* the button presses handled: the button and what was executed

agentVars == <<messages, apc, loop_count, max_loops, ask_base, executed, gen>>

lifeVars == <<use_docker, inst, container, cstatus, km, kc, containers, kernels,
              latest_state, img_count, lpc, lop, old_image_id, raised, ncleanup,
              acted, faulted, pre, last_call, last_out, assigned>>

mailVars == <<hpc, polls, req, hcode, result, f_input, f_exec_id, f_output, f_done,
              spc, s_code, s_out, kernel_ns, srv_assigned, f_errlog>>

skillVars == <<sk_skills, sk_files, sk_reqfile, sk_manifest, sk_last, sk_hist>>

chatVars == <<sent, sgen, yielded, ch_last>>

teachVars == <<t_pc, t_op, skill_name, retry_count, t_attempts, t_calls, t_parsed,
               t_outcome, t_ncalls>>

loadVars == <<ld_impl, ld_skills, ld_exec, ld_prompts, ld_turns, ld_raised,
              ld_roles>>

extractVars == <<ex_doc, ex_text, ex_out, ex_done>>

frontVars == <<co_pc, co_agent, co_loop_count, co_cleanups, co_stop, co_raised,
               co_shown, co_inputs, tg_pc, tg_agent, tg_cleanups, tg_stop,
               tg_sent, tg_raised, tg_escaped, tg_updates>>

toolVars == <<tl_snippets, tl_outs, tl_results, tl_calls, tl_done>>

buttonVars == <<bt_last, bt_replies, bt_buttons, bt_runs>>

vars == <<agentVars, lifeVars, mailVars, skillVars, chatVars, teachVars,
          loadVars,
          extractVars,
          frontVars,
          toolVars,
          buttonVars>>

\* What the actions of one part of the model leave unchanged
agentOthers == <<lifeVars, mailVars, skillVars, chatVars, teachVars,
                 loadVars,
                 extractVars,
                 frontVars,
                 toolVars,
                 buttonVars>>
lifeOthers == <<agentVars, mailVars, skillVars, chatVars, teachVars,
                loadVars,
                extractVars,
                frontVars,
                toolVars,
                buttonVars>>
mailOthers == <<agentVars, lifeVars, skillVars, chatVars, teachVars,
                loadVars,
                extractVars,
                frontVars,
                toolVars,
                buttonVars>>
skillOthers == <<agentVars, lifeVars, mailVars, chatVars, teachVars,
                 loadVars,
                 extractVars,
                 frontVars,
                 toolVars,
                 buttonVars>>
chatOthers == <<lifeVars, mailVars, skillVars, teachVars,
                loadVars,
                extractVars,
                frontVars,
                toolVars,
                buttonVars>>
teachOthers == <<lifeVars, mailVars, chatVars,
                 loadVars,
                 extractVars,
                 frontVars,
                 toolVars,
                 buttonVars>>
loadOthers == <<agentVars, lifeVars, mailVars, skillVars, chatVars, teachVars,
                extractVars,
                frontVars,
                toolVars,
                buttonVars>>
frontOthers == <<agentVars, lifeVars, mailVars, skillVars, chatVars, teachVars,
                 loadVars, extractVars,
                 toolVars,
                 buttonVars>>
extractOthers == <<agentVars, lifeVars, mailVars, skillVars, chatVars, teachVars,
                   loadVars,
                   frontVars,
                   toolVars,
                   buttonVars>>
toolOthers == <<agentVars, lifeVars, mailVars, skillVars, chatVars, teachVars,
                loadVars, extractVars, frontVars,
                buttonVars>>

buttonOthers == <<agentVars, lifeVars, mailVars, skillVars, chatVars, teachVars,
                  loadVars, extractVars, frontVars, toolVars>>

(***************************************************************************)
(* Values                                                                  *)
(***************************************************************************)
\* Python's None (an absent stdout, stderr, language, handle)
None == "<None>"

\* A name the interpreter namespace does not bind
Undefined == "<undefined>"

\* ---- bounds of the model ----
MaxLoops == 2
MaxMessages == 7
MaxContainers == 2
MaxKernels == 2
MaxCleanups == 2
MaxRequests == 2

\* Strings that the code inspects character by character are sequences of
\* one-character strings.
s_python == <<"p", "y", "t", "h", "o", "n">>
s_bash == <<"b", "a", "s", "h">>
s_Python3 == <<"P", "y", "t", "h", "o", "n", "3">>
s_javascript == <<"j", "a", "v", "a", "s", "c", "r", "i", "p", "t">>
s_BASH == <<"B", "A", "S", "H">>
s_bash_x == <<"b", "a", "s", "h", " ", "-", "x">>

\* str.lower() on one character
LowerChar(c) ==
    CASE c = "P" -> "p" [] c = "Y" -> "y" [] c = "T" -> "t" [] c = "H" -> "h"
      [] c = "O" -> "o" [] c = "N" -> "n" [] c = "B" -> "b" [] c = "A" -> "a"
      [] c = "S" -> "s" [] OTHER -> c

\* str.lower()
Lower(s) == [i \in 1..Len(s) |-> LowerChar(s[i])]

\* Python's `sub in s` on strings
Contains(sub, s) ==
    \E i \in 0..(Len(s) - Len(sub)) :
        \A j \in 1..Len(sub) : s[i + j] = sub[j]

\* ---- code: the statements a snippet can hold ----
Vars == {"x", "y"}
Vals == {"1", "2"}
Assign(v, n) == [op |-> "assign", var |-> v, val |-> n]
PrintVar(v) == [op |-> "print", var |-> v, val |-> None]
Install(p) == [op |-> "install", var |-> p, val |-> None]
Pass == [op |-> "pass", var |-> None, val |-> None]

\* The language of a fenced block that has no info string (Python's None)
NoLanguage == << "<None>" >>

\* services/code_snippet_extractor.py: CodeSnippet(language, content)
CodeSnippet(l, c) == [language |-> l, content |-> c]

\* An assistant reply is the sequence of its fenced blocks (info string or
\* None, body); the text between the blocks carries no behaviour.
Replies ==
    { <<>>,
      << CodeSnippet(s_python, Assign("x", "1")) >>,
      << CodeSnippet(s_javascript, Pass) >>,
      << CodeSnippet(NoLanguage, PrintVar("x")) >>,
      << CodeSnippet(s_javascript, Pass), CodeSnippet(s_Python3, PrintVar("x")) >>,
      << CodeSnippet(s_BASH, Install("pkg")) >>,
      << CodeSnippet(s_bash_x, Install("pkg")) >> }

\* extract_snippets on a reply of ASCII text: one snippet per fenced block,
\* in document order (extract_from_text works on the characters)
extract_snippets(reply) == reply

(***************************************************************************)
(* Code Executor, local mode (tools/code_execute.py)                       *)
(***************************************************************************)
\* An interpreter namespace: every name is bound to a value or Undefined
EmptyNs == [v \in Vars |-> Undefined]

\* A (stdout, stderr) pair as execute() returns it
Out(o, e) == [stdout |-> o, stderr |-> e]

\* What a Python interpreter with namespace ns does with a snippet body:
\* the new namespace and the captured output.
RunPython(ns, code) ==
    CASE code.op = "assign" ->
            [ns |-> [ns EXCEPT ![code.var] = code.val], out |-> Out(None, None)]
      [] code.op = "print" ->
            [ns |-> ns,
             out |-> IF ns[code.var] # Undefined
                     THEN Out(ns[code.var], None)
                     ELSE Out(None, "NameError")]
      [] code.op = "install" ->
            [ns |-> ns, out |-> Out(None, "SyntaxError")]
      [] OTHER ->
            [ns |-> ns, out |-> Out(None, None)]

\* What a shell does with a snippet body: the possible captured outputs.
RunBash(code) ==
    CASE code.op = "install" ->
            { Out("Successfully installed", None), Out(None, "ERROR: no such package") }
      [] code.op = "pass" -> { Out(None, None) }
      [] OTHER -> { Out(None, "command not found") }

\* CodeExecutor._execute_local: the code is written to a temporary file and
\* run by a new `python code_runner.py <file>` subprocess; exit status 0
\* gives the runner's JSON output, anything else (None, stderr).  The
\* subprocess is a new interpreter: its namespace starts empty.
execute_local(code) ==
    { RunPython(EmptyNs, code).out, Out(None, "runner failed") }

\* CodeExecutor._execute_bash_local: the code is run by a shell subprocess
execute_bash_local(code) == RunBash(code) \cup { Out(None, "Popen failed") }

\* CodeExecutor.execute with use_docker = False: the possible results
execute_host(code, language) ==
    IF Lower(language) = s_bash
    THEN execute_bash_local(code)
    ELSE execute_local(code)

(***************************************************************************)
(* Agent (agent/base.py, agent/response_handler.py, agent/tool_handler.py) *)
(***************************************************************************)
\* The content of a message: what kind of text it is, the fenced blocks of
\* an assistant reply, the tool results embedded in a follow-up prompt.
Content(text, blocks, results) ==
    [text |-> text, blocks |-> blocks, results |-> results]

\* Agent._initialize_chat: the system message
SystemMessage == [role |-> "system", content |-> Content("system", <<>>, <<>>)]

\* ResponseHandler._create_tool_response
create_tool_response(reply) ==
    LET snippets == extract_snippets(reply)
    IN  IF snippets # <<>>
        THEN << [name |-> "python_executor",
                 parameters |-> [snippets |-> snippets]] >>
        ELSE <<>>

\* The user message get_response appends (no skills are known)
UserMessage(content) == [role |-> "user", content |-> content, skills |-> <<>>]

\* ResponseHandler.handle_response, non-streaming: AgentResponse.__dict__
\* plus the skills key
AssistantMessage(reply) ==
    [role |-> "assistant", content |-> Content("reply", reply, <<>>),
     tools |-> create_tool_response(reply), done |-> TRUE, skills |-> <<>>]

\* ResponseHandler._handle_streaming_response: the final chunk's __dict__
StreamedMessage(reply) ==
    [role |-> "assistant", content |-> Content("reply", reply, <<>>),
     tools |-> create_tool_response(reply), done |-> TRUE]

\* dict.get("tools") of a stored message
GetTools(msg) == IF "tools" \in DOMAIN msg THEN msg.tools ELSE <<>>

\* Agent.should_ask_user
should_ask_user(msgs) ==
    IF msgs = <<>> THEN FALSE ELSE GetTools(msgs[Len(msgs)]) # <<>>

\* ToolHandler._execute_python_tool, the test that sends a snippet to the
\* executor
IsExecuted(snippet) ==
    /\ snippet.language # NoLanguage
    /\ \/ Contains(s_python, Lower(snippet.language))
       \/ Contains(s_bash, Lower(snippet.language))

\* ToolHandler._execute_python_tool: outs[i] is what executor.execute
\* returned for snippet i (used only where the snippet is executed)
RECURSIVE execute_python_tool(_, _, _)
execute_python_tool(snippets, outs, i) ==
    IF i > Len(snippets) THEN <<>>
    ELSE LET snippet == snippets[i]
             o == IF IsExecuted(snippet) THEN outs[i] ELSE Out(None, None)
             entry ==
                IF snippet.language # NoLanguage
                   /\ (o.stdout # None \/ o.stderr # None)
                THEN << [kind |-> "Output",
                         text |-> IF o.stdout # None THEN o.stdout ELSE ""] >>
                     \o (IF o.stderr # None
                         THEN << [kind |-> "Errors", text |-> o.stderr] >>
                         ELSE <<>>)
                ELSE <<>>
         IN  entry \o execute_python_tool(snippets, outs, i + 1)

\* The snippets of the python_executor tools of a tools list, in order
RECURSIVE ToolSnippets(_)
ToolSnippets(tools) ==
    IF tools = <<>> THEN <<>>
    ELSE (IF Head(tools).name = "python_executor"
          THEN Head(tools).parameters.snippets ELSE <<>>)
         \o ToolSnippets(Tail(tools))

\* ToolHandler.execute_tools
execute_tools(tools, outs) == execute_python_tool(ToolSnippets(tools), outs, 1)

\* The calls of executor.execute that execute_tools makes, in order
RECURSIVE ExecCalls(_)
ExecCalls(snippets) ==
    IF snippets = <<>> THEN <<>>
    ELSE (IF IsExecuted(Head(snippets))
          THEN << [content |-> Head(snippets).content,
                   language |-> Lower(Head(snippets).language)] >>
          ELSE <<>>)
         \o ExecCalls(Tail(snippets))

\* The results executor.execute can return for each snippet of a list
PossibleOuts(snippets) ==
    { outs \in [1..Len(snippets) -> {Out(o, e) : o \in Vals \cup {None, "Successfully installed"},
                                                 e \in {None, "NameError", "SyntaxError", "runner failed",
                                                        "ERROR: no such package", "command not found",
                                                        "Popen failed"}}] :
        \A i \in 1..Len(snippets) :
            outs[i] \in IF IsExecuted(snippets[i])
                        THEN execute_host(snippets[i].content, Lower(snippets[i].language))
                        ELSE { Out(None, None) } }

\* Agent.get_follow_up
get_follow_up(results) == Content("follow_up", <<>>, results)

\* Agent.get_response, non-streaming
get_response(msgs, content, reply) ==
    msgs \o << UserMessage(content), AssistantMessage(reply) >>

TypeOKAgent ==
    /\ apc \in {"idle", "loop", "returned"}
    /\ loop_count \in 0..(MaxLoops + 1)
    /\ max_loops \in 0..(MaxLoops + 1)
    /\ Len(messages) >= 1

InitAgent ==
    /\ messages = << SystemMessage >>
    /\ apc = "idle"
    /\ loop_count = 0
    /\ max_loops = 0
    /\ ask_base = 1
    /\ executed = <<>>
    /\ gen = <<>>

\* Agent.ask up to its loop: the first get_response.  With stream the
\* response is an unconsumed generator and only the user message is stored.
Ask ==
    /\ apc = "idle"
    /\ \E stream \in BOOLEAN, auto \in BOOLEAN, n \in 0..MaxLoops, reply \in Replies :
        /\ Len(messages) + 2 * (n + 1) <= MaxMessages
        /\ IF stream
           THEN /\ messages' = Append(messages, UserMessage(Content("input", <<>>, <<>>)))
                /\ gen' = << reply >>
           ELSE /\ messages' = get_response(messages, Content("input", <<>>, <<>>), reply)
                /\ gen' = gen
        /\ max_loops' = n
        /\ apc' = IF auto THEN "loop" ELSE "returned"
    /\ loop_count' = 0
    /\ ask_base' = Len(messages)
    /\ executed' = <<>>
    /\ UNCHANGED agentOthers

\* Agent.ask: `if loop_count >= max_loops: break`
\* (a variant that lets one more pass through)
LoopLimitReached_late(count, limit) == count > limit

LoopLimitReached(count, limit) == count >= limit

\* One pass of the `while True` loop of Agent.ask
AskLoop ==
    /\ apc = "loop"
    /\ IF ~should_ask_user(messages) \/ LoopLimitReached(loop_count, max_loops)
       THEN /\ apc' = "returned"
            /\ UNCHANGED <<messages, loop_count, executed>>
       ELSE LET tools == GetTools(messages[Len(messages)])
                snippets == ToolSnippets(tools)
            IN  \E outs \in PossibleOuts(snippets), reply \in Replies :
                  LET results == execute_tools(tools, outs)
                  IN  /\ executed' = executed \o ExecCalls(snippets)
                      /\ IF results = <<>>
                         THEN /\ apc' = "returned"
                              /\ UNCHANGED <<messages, loop_count>>
                         ELSE /\ messages' = get_response(messages, get_follow_up(results), reply)
                              /\ loop_count' = loop_count + 1
                              /\ apc' = "loop"
    /\ UNCHANGED <<agentOthers, max_loops, ask_base, gen>>

\* Agent.ask has returned; the front end is ready for the next input
AskReturn ==
    /\ apc = "returned"
    /\ apc' = "idle"
    /\ UNCHANGED <<agentOthers, messages, loop_count, max_loops, ask_base, executed, gen>>

\* The caller consumes the streaming generator to its end
ConsumeStream ==
    /\ gen # <<>>
    /\ apc = "idle"
    /\ Len(messages) + 1 <= MaxMessages
    /\ messages' = Append(messages, StreamedMessage(gen[1]))
    /\ gen' = <<>>
    /\ UNCHANGED <<agentOthers, apc, loop_count, max_loops, ask_base, executed>>

NextAgent ==
    \/ Ask
    \/ AskLoop
    \/ AskReturn
    \/ ConsumeStream

(***************************************************************************)
(* Code Executor lifecycle (tools/code_execute.py): construction,          *)
(* execute, cleanup and reset against the Docker daemon and the local      *)
(* kernels.                                                                *)
(***************************************************************************)
\* hasattr(self, ...) is false
Unset == -1

\* the attribute holds Python's None
NoneH == 0

\* Files and packages a snippet can install into a container
Files == {"pkg"}

\* id of the configured docker_image (the base image)
BaseImage == 0

\* A slot of the daemon that holds no container yet
NoContainer ==
    [status |-> "none", image |-> BaseImage, fs |-> {}, ns |-> EmptyNs,
     owner |-> 0, server |-> FALSE]

\* The tag <repo>:latest_state does not exist
NoImage == [exists |-> FALSE, id |-> BaseImage, fs |-> {}]

\* container.remove(force=True): the container is gone
Removed(c) ==
    [status |-> "removed", image |-> BaseImage, fs |-> {}, ns |-> EmptyNs,
     owner |-> c.owner, server |-> FALSE]

\* container.stop(): its processes end, its filesystem stays
Stopped(c) == [c EXCEPT !.status = "exited", !.ns = EmptyNs, !.server = FALSE]

\* The container exists for the daemon
Exists(c) == c.status \in {"created", "running", "exited"}

\* The first free container id, or 0
FreeContainer ==
    IF \E c \in 1..MaxContainers : containers[c].status = "none"
    THEN CHOOSE c \in 1..MaxContainers :
            /\ containers[c].status = "none"
            /\ \A d \in 1..(c - 1) : containers[d].status # "none"
    ELSE 0

\* The first free kernel id, or 0
FreeKernel ==
    IF \E k \in 1..MaxKernels : kernels[k].status = "none"
    THEN CHOOSE k \in 1..MaxKernels :
            /\ kernels[k].status = "none"
            /\ \A d \in 1..(k - 1) : kernels[d].status # "none"
    ELSE 0

\* CodeExecutor._start_container: the saved state image if it exists,
\* else docker_image
StartImage(state) == IF state.exists THEN state ELSE NoImage

\* CodeExecutor._start_container: containers.run, then the setup commands
\* and the server start
NewContainer(state, owner) ==
    [status |-> "running", image |-> StartImage(state).id,
     fs |-> StartImage(state).fs, ns |-> EmptyNs, owner |-> owner, server |-> TRUE]

\* Exception classes: exc is an instance of class cls
IsA(exc, cls) ==
    CASE cls = "Exception" -> exc # "none"
      [] cls = "APIError" -> exc \in {"APIError", "NotFound", "ImageNotFound"}
      [] cls = "NotFound" -> exc \in {"NotFound", "ImageNotFound"}
      [] cls = "ImageNotFound" -> exc = "ImageNotFound"
      [] OTHER -> exc = cls

\* The except clause of the outermost try of the Docker part of cleanup
OuterHandler == << <<"Exception", "c_end">> >>

\* The except clauses around each step of cleanup, innermost first, each
\* with the step that follows it
Handlers(step) ==
    CASE step = "k_stop" -> << <<"Exception", "k_shutdown">> >>
      [] step = "k_shutdown" -> << <<"Exception", "c_end">> >>
      [] step = "c_attrs" -> OuterHandler
      [] step = "c_ps" -> << <<"Exception", "c_reload1">> >> \o OuterHandler
      [] step = "c_reload1" ->
            << <<"NotFound", "c_end">>, <<"Exception", "c_end">> >> \o OuterHandler
      [] step \in {"c_getold", "c_stopothers"} ->
            << <<"ImageNotFound", "c_start">>, <<"Exception", "c_reload2">> >>
            \o OuterHandler
      [] step = "c_rmimage" ->
            << <<"APIError", "c_start">>, <<"ImageNotFound", "c_start">>,
               <<"Exception", "c_reload2">> >> \o OuterHandler
      [] step \in {"c_start", "c_commit1"} ->
            << <<"Exception", "c_reload2">> >> \o OuterHandler
      [] step = "c_verify" -> << <<"Exception", "c_reload2">> >> \o OuterHandler
      [] step \in {"c_reload2", "c_commit2", "c_stop", "c_remove"} ->
            << <<"NotFound", "c_finally">>, <<"Exception", "c_finally">> >>
            \o OuterHandler
      [] OTHER -> <<>>

\* Where an exception raised at a step continues: the step after the first
\* except clause that matches, or "raise" when it leaves cleanup
RECURSIVE Catch(_, _)
Catch(handlers, exc) ==
    IF handlers = <<>> THEN "raise"
    ELSE IF IsA(exc, Head(handlers)[1]) THEN Head(handlers)[2]
    ELSE Catch(Tail(handlers), exc)

Dispatch(step, exc) == Catch(Handlers(step), exc)

\* What a daemon call on container c can raise: NotFound when the
\* container is gone, otherwise nothing or an error of the daemon
ApiOutcomes(c) ==
    IF Exists(containers[c]) THEN {"none", "APIError"} ELSE {"NotFound"}

\* The session the executor holds, recorded when an operation is entered
Session ==
    IF use_docker /\ container > NoneH
    THEN [cid |-> container,
          running |-> containers[container].status = "running",
          fs |-> containers[container].fs,
          ns |-> containers[container].ns]
    ELSE [cid |-> 0, running |-> FALSE, fs |-> {}, ns |-> EmptyNs]

\* The state after CodeExecutor.__init__ in mode ud, with the state image
\* img left behind by earlier runs
LifeInitWith(ud, img) ==
    /\ use_docker = ud
    /\ inst = 1
    /\ latest_state = img
    /\ img_count = IF img.exists THEN img.id ELSE 0
    /\ containers = [c \in 1..MaxContainers |->
                        IF ud /\ c = 1 THEN NewContainer(img, 1) ELSE NoContainer]
    /\ container = IF ud THEN 1 ELSE Unset
    /\ cstatus = IF ud THEN "running" ELSE "none"
    /\ kernels = [k \in 1..MaxKernels |->
                        IF ~ud /\ k = 1 THEN [status |-> "running", owner |-> 1]
                        ELSE [status |-> "none", owner |-> 0]]
    /\ km = IF ud THEN Unset ELSE 1
    /\ kc = IF ud THEN Unset ELSE 1
    /\ lpc = "idle"
    /\ lop = "none"
    /\ old_image_id = BaseImage
    /\ raised = FALSE
    /\ ncleanup = 0
    /\ acted = FALSE
    /\ faulted = FALSE
    /\ pre = [cid |-> 0, running |-> FALSE, fs |-> {}, ns |-> EmptyNs]
    /\ last_call = Pass
    /\ last_out = Out(None, None)
    /\ assigned = EmptyNs

\* The lifecycle variables while another specification runs: a local-mode
\* executor that is not used
PinLife == LifeInitWith(FALSE, NoImage)

InitLife ==
    \E ud \in BOOLEAN :
        \E img \in {NoImage} \cup
                   (IF ud THEN {[exists |-> TRUE, id |-> 1, fs |-> f] : f \in SUBSET Files}
                    ELSE {}) :
            LifeInitWith(ud, img)

\* The names the execute() calls of this session have defined so far
Record(code, out) ==
    IF code.op = "assign" /\ out.stderr = None
    THEN [assigned EXCEPT ![code.var] = code.val]
    ELSE assigned

\* The code the lifecycle specification passes to execute()
LifeCodes == { Assign("x", "1"), PrintVar("x"), Install("pkg") }

\* CodeExecutor.execute, use_docker = False: _execute_local or
\* _execute_bash_local
ExecuteLocal ==
    /\ lpc = "idle"
    /\ ~use_docker
    /\ \E code \in LifeCodes, language \in {s_python, s_bash} :
         \E out \in execute_host(code, language) :
            /\ last_call' = IF Lower(language) = s_bash THEN Pass ELSE code
            /\ last_out' = out
            /\ assigned' = IF Lower(language) = s_bash THEN assigned ELSE Record(code, out)
    /\ UNCHANGED <<lifeOthers, use_docker, inst, container, cstatus, km, kc,
                   containers, kernels, latest_state, img_count, lpc, lop,
                   old_image_id, raised, ncleanup, acted, faulted, pre>>

\* CodeExecutor.execute, use_docker = True: _execute_bash_in_docker runs the
\* code by exec_run; _execute_in_docker hands it to the server in the
\* container, which runs it in its kernel or does not answer in time.
ExecuteDocker ==
    /\ lpc = "idle"
    /\ use_docker
    /\ \E code \in LifeCodes, language \in {s_python, s_bash} :
        IF container <= NoneH \/ containers[container].status # "running"
        THEN /\ last_out' = Out(None, "docker error")
             /\ UNCHANGED containers
        ELSE IF Lower(language) = s_bash
        THEN \E out \in RunBash(code) \cup {Out(None, "docker error")} :
                /\ last_out' = out
                /\ containers' =
                      IF code.op = "install" /\ out.stderr = None
                      THEN [containers EXCEPT ![container].fs = @ \cup {code.var}]
                      ELSE containers
        ELSE \E answered \in (IF containers[container].server THEN BOOLEAN ELSE {FALSE}) :
                LET run == RunPython(containers[container].ns, code)
                IN  /\ last_out' = IF answered THEN run.out ELSE Out(None, "Execution timeout")
                    /\ containers' = IF answered
                                     THEN [containers EXCEPT ![container].ns = run.ns]
                                     ELSE containers
    /\ UNCHANGED <<lifeOthers, use_docker, inst, container, cstatus, km, kc,
                   kernels, latest_state, img_count, lpc, lop, old_image_id,
                   raised, ncleanup, acted, faulted, pre, last_call, assigned>>

\* CodeExecutor.cleanup is entered (by the caller or by reset): the tests
\* `if not self.use_docker` and `if self.use_docker and hasattr(self, 'container')`
EnterCleanup(op) ==
    /\ lpc = "idle"
    /\ ncleanup < MaxCleanups
    /\ lop' = op
    /\ lpc' = IF ~use_docker THEN "k_stop"
              ELSE IF container # Unset THEN "c_attrs" ELSE "c_end"
    /\ ncleanup' = ncleanup + 1
    /\ acted' = FALSE
    /\ faulted' = FALSE
    /\ pre' = Session
    /\ last_call' = Pass
    /\ last_out' = Out(None, None)
    /\ UNCHANGED <<lifeOthers, use_docker, inst, container, cstatus, km, kc,
                   containers, kernels, latest_state, img_count, old_image_id,
                   raised, assigned>>

\* cleanup() is called
CleanupBegin ==
    /\ lop = "none"
    /\ EnterCleanup("cleanup")

\* reset() is called: it starts with cleanup()
ResetBegin ==
    /\ lop = "none"
    /\ IF use_docker THEN FreeContainer # 0 ELSE FreeKernel # 0
    /\ EnterCleanup("reset")

\* A step of cleanup ends with exception exc (or "none"): control goes to
\* the next step or to the except clause that catches exc
Continue(step, exc, next) ==
    LET to == IF exc = "none" THEN next ELSE Dispatch(step, exc)
    IN  /\ lpc' = IF to = "raise" THEN "c_end" ELSE to
        /\ raised' = (raised \/ to = "raise")
        /\ lop' = IF to = "raise" THEN "cleanup" ELSE lop

\* cleanup, local mode: `if hasattr(self, 'kc')`: kc.stop_channels(); kc = None
KStop ==
    /\ lpc = "k_stop"
    /\ IF kc = Unset
       THEN /\ Continue("k_stop", "none", "k_shutdown")
            /\ UNCHANGED <<kc, acted, faulted>>
       ELSE IF kc = NoneH
       THEN /\ Continue("k_stop", "AttributeError", "k_shutdown")
            /\ UNCHANGED <<kc, acted, faulted>>
       ELSE \E exc \in {"none", "Exception"} :
            /\ Continue("k_stop", exc, "k_shutdown")
            /\ kc' = IF exc = "none" THEN NoneH ELSE kc
            /\ acted' = TRUE
            /\ faulted' = (faulted \/ exc # "none")
    /\ UNCHANGED <<lifeOthers, use_docker, inst, container, cstatus, km,
                   containers, kernels, latest_state, img_count, old_image_id,
                   ncleanup, pre, last_call, last_out, assigned>>

\* cleanup, local mode: `if hasattr(self, 'km')`: km.shutdown_kernel(now=True);
\* km = None
KShutdown ==
    /\ lpc = "k_shutdown"
    /\ IF km = Unset
       THEN /\ Continue("k_shutdown", "none", "c_end")
            /\ UNCHANGED <<km, kernels, acted, faulted>>
       ELSE IF km = NoneH
       THEN /\ Continue("k_shutdown", "AttributeError", "c_end")
            /\ UNCHANGED <<km, kernels, acted, faulted>>
       ELSE \E exc \in {"none", "Exception"} :
            /\ Continue("k_shutdown", exc, "c_end")
            /\ km' = IF exc = "none" THEN NoneH ELSE km
            /\ kernels' = IF exc = "none"
                          THEN [kernels EXCEPT ![km].status = "dead"]
                          ELSE kernels
            /\ acted' = TRUE
            /\ faulted' = (faulted \/ exc # "none")
    /\ UNCHANGED <<lifeOthers, use_docker, inst, container, cstatus, kc,
                   containers, latest_state, img_count, old_image_id,
                   ncleanup, pre, last_call, last_out, assigned>>

\* cleanup, Docker: container_info = self.container.attrs
CAttrs ==
    /\ lpc = "c_attrs"
    /\ Continue("c_attrs", IF container = NoneH THEN "AttributeError" ELSE "none", "c_ps")
    /\ UNCHANGED <<lifeOthers, use_docker, inst, container, cstatus, km, kc,
                   containers, kernels, latest_state, img_count, old_image_id,
                   ncleanup, acted, faulted, pre, last_call, last_out, assigned>>

\* cleanup, Docker: exec_run(ps ...) and, on exit code 0, exec_run(kill pid)
CPs ==
    /\ lpc = "c_ps"
    /\ acted' = TRUE
    /\ IF containers[container].status = "running"
       THEN \E r \in {"no_kill", "kill", "APIError"} :
            /\ Continue("c_ps", IF r = "APIError" THEN r ELSE "none", "c_reload1")
            /\ containers' = IF r = "kill"
                             THEN [containers EXCEPT ![container].server = FALSE]
                             ELSE containers
            /\ faulted' = (faulted \/ r = "APIError")
       ELSE /\ Continue("c_ps",
                        IF Exists(containers[container]) THEN "APIError" ELSE "NotFound",
                        "c_reload1")
            /\ UNCHANGED <<containers, faulted>>
    /\ UNCHANGED <<lifeOthers, use_docker, inst, container, cstatus, km, kc,
                   kernels, latest_state, img_count, old_image_id, ncleanup,
                   pre, last_call, last_out, assigned>>

\* cleanup, Docker: self.container.reload() and the test of its status
CReload1 ==
    /\ lpc = "c_reload1"
    /\ acted' = TRUE
    /\ \E exc \in ApiOutcomes(container) :
        /\ cstatus' = IF exc = "none" THEN containers[container].status ELSE cstatus
        /\ Continue("c_reload1", exc,
                    IF containers[container].status \in {"running", "created"}
                    THEN "c_getold" ELSE "c_end")
        /\ faulted' = (faulted \/ exc = "APIError")
    /\ UNCHANGED <<lifeOthers, use_docker, inst, container, km, kc,
                   containers, kernels, latest_state, img_count, old_image_id,
                   ncleanup, pre, last_call, last_out, assigned>>

\* cleanup, Docker: old_image = self.docker_client.images.get(old_image_tag)
CGetOld ==
    /\ lpc = "c_getold"
    /\ \E exc \in {IF latest_state.exists THEN "none" ELSE "ImageNotFound", "APIError"} :
        /\ old_image_id' = IF exc = "none" THEN latest_state.id ELSE old_image_id
        /\ Continue("c_getold", exc, "c_stopothers")
        /\ faulted' = (faulted \/ exc = "APIError")
    /\ UNCHANGED <<lifeOthers, use_docker, inst, container, cstatus, km, kc,
                   containers, kernels, latest_state, img_count, ncleanup,
                   acted, pre, last_call, last_out, assigned>>

\* cleanup, Docker: every container of containers.list(all=True) whose image
\* is the old state image is stopped and removed; a failure on one of them
\* is printed and the loop goes on
StopOther(c, res) ==
    CASE res = "removed" -> Removed(c)
      [] res = "remove_failed" -> Stopped(c)
      [] OTHER -> c

\* `container.image.id == old_image.id`
UsesOldImage(c) ==
    /\ Exists(containers[c])
    /\ containers[c].image = old_image_id

CStopOthers ==
    /\ lpc = "c_stopothers"
    /\ \/ /\ Continue("c_stopothers", "APIError", "c_rmimage")
          /\ faulted' = TRUE
          /\ UNCHANGED containers
       \/ \E res \in [1..MaxContainers -> {"removed", "stop_failed", "remove_failed"}] :
            /\ \A c \in 1..MaxContainers : ~UsesOldImage(c) => res[c] = "removed"
            /\ containers' = [c \in 1..MaxContainers |->
                                IF UsesOldImage(c) THEN StopOther(containers[c], res[c])
                                ELSE containers[c]]
            /\ faulted' = (faulted \/ \E c \in 1..MaxContainers : res[c] # "removed")
            /\ Continue("c_stopothers", "none", "c_rmimage")
    /\ UNCHANGED <<lifeOthers, use_docker, inst, container, cstatus, km, kc,
                   kernels, latest_state, img_count, old_image_id, ncleanup,
                   acted, pre, last_call, last_out, assigned>>

\* cleanup, Docker: self.docker_client.images.remove(old_image.id, force=True);
\* the daemon refuses while a running container uses the image
CRmImage ==
    /\ lpc = "c_rmimage"
    /\ \E exc \in (IF \E c \in 1..MaxContainers :
                        containers[c].status = "running" /\ containers[c].image = old_image_id
                   THEN {"APIError"} ELSE {"none", "APIError"}) :
        /\ latest_state' = IF exc = "none" /\ latest_state.id = old_image_id
                           THEN NoImage ELSE latest_state
        /\ Continue("c_rmimage", exc, "c_start")
        /\ faulted' = (faulted \/ (exc = "APIError" /\
                          ~\E c \in 1..MaxContainers :
                              containers[c].status = "running"
                              /\ containers[c].image = old_image_id))
    /\ UNCHANGED <<lifeOthers, use_docker, inst, container, cstatus, km, kc,
                   containers, kernels, img_count, old_image_id, ncleanup,
                   acted, pre, last_call, last_out, assigned>>

\* cleanup, Docker: `if self.container.status == 'created'`: start() and
\* reload(); `if self.container.status != 'running': raise Exception`
CStart ==
    /\ lpc = "c_start"
    /\ IF cstatus = "created"
       THEN \E exc \in ApiOutcomes(container) :
            /\ containers' = IF exc = "none"
                             THEN [containers EXCEPT ![container].status = "running"]
                             ELSE containers
            /\ cstatus' = IF exc = "none" THEN "running" ELSE cstatus
            /\ Continue("c_start", exc, "c_commit1")
            /\ faulted' = (faulted \/ exc = "APIError")
       ELSE /\ Continue("c_start", IF cstatus # "running" THEN "Exception" ELSE "none",
                        "c_commit1")
            /\ UNCHANGED <<containers, cstatus, faulted>>
    /\ UNCHANGED <<lifeOthers, use_docker, inst, container, km, kc, kernels,
                   latest_state, img_count, old_image_id, ncleanup, acted,
                   pre, last_call, last_out, assigned>>

\* container.commit(repository, tag='latest_state'): a new image with the
\* container's filesystem takes the tag
Commit(c) == [exists |-> TRUE, id |-> img_count + 1, fs |-> containers[c].fs]

\* cleanup, Docker: commit_result = self.container.commit(...)
CCommit1 ==
    /\ lpc = "c_commit1"
    /\ \E exc \in ApiOutcomes(container) :
        /\ latest_state' = IF exc = "none" THEN Commit(container) ELSE latest_state
        /\ img_count' = IF exc = "none" THEN img_count + 1 ELSE img_count
        /\ Continue("c_commit1", exc, "c_verify")
        /\ faulted' = (faulted \/ exc = "APIError")
    /\ UNCHANGED <<lifeOthers, use_docker, inst, container, cstatus, km, kc,
                   containers, kernels, old_image_id, ncleanup, acted, pre,
                   last_call, last_out, assigned>>

\* cleanup, Docker: the lookup that verifies the saved image
CVerify ==
    /\ lpc = "c_verify"
    /\ \E exc \in {"none", "APIError"} :
        /\ Continue("c_verify", exc, "c_reload2")
        /\ faulted' = (faulted \/ exc = "APIError")
    /\ UNCHANGED <<lifeOthers, use_docker, inst, container, cstatus, km, kc,
                   containers, kernels, latest_state, img_count, old_image_id,
                   ncleanup, acted, pre, last_call, last_out, assigned>>

\* cleanup, Docker, last try: self.container.reload();
\* `if self.container.status == 'running'`
CReload2 ==
    /\ lpc = "c_reload2"
    /\ \E exc \in ApiOutcomes(container) :
        /\ cstatus' = IF exc = "none" THEN containers[container].status ELSE cstatus
        /\ Continue("c_reload2", exc,
                    IF containers[container].status = "running"
                    THEN "c_commit2" ELSE "c_finally")
        /\ faulted' = (faulted \/ exc = "APIError")
    /\ UNCHANGED <<lifeOthers, use_docker, inst, container, km, kc,
                   containers, kernels, latest_state, img_count, old_image_id,
                   ncleanup, acted, pre, last_call, last_out, assigned>>

\* cleanup, Docker, last try: the final commit
CCommit2 ==
    /\ lpc = "c_commit2"
    /\ \E exc \in ApiOutcomes(container) :
        /\ latest_state' = IF exc = "none" THEN Commit(container) ELSE latest_state
        /\ img_count' = IF exc = "none" THEN img_count + 1 ELSE img_count
        /\ Continue("c_commit2", exc, "c_stop")
        /\ faulted' = (faulted \/ exc = "APIError")
    /\ UNCHANGED <<lifeOthers, use_docker, inst, container, cstatus, km, kc,
                   containers, kernels, old_image_id, ncleanup, acted, pre,
                   last_call, last_out, assigned>>

\* cleanup, Docker, last try: self.container.stop(timeout=2)
CStop ==
    /\ lpc = "c_stop"
    /\ \E exc \in ApiOutcomes(container) :
        /\ containers' = IF exc = "none"
                         THEN [containers EXCEPT ![container] = Stopped(@)]
                         ELSE containers
        /\ Continue("c_stop", exc, "c_remove")
        /\ faulted' = (faulted \/ exc = "APIError")
    /\ UNCHANGED <<lifeOthers, use_docker, inst, container, cstatus, km, kc,
                   kernels, latest_state, img_count, old_image_id, ncleanup,
                   acted, pre, last_call, last_out, assigned>>

\* cleanup, Docker, last try: self.container.remove(force=True)
CRemove ==
    /\ lpc = "c_remove"
    /\ \E exc \in ApiOutcomes(container) :
        /\ containers' = IF exc = "none"
                         THEN [containers EXCEPT ![container] = Removed(@)]
                         ELSE containers
        /\ Continue("c_remove", exc, "c_finally")
        /\ faulted' = (faulted \/ exc = "APIError")
    /\ UNCHANGED <<lifeOthers, use_docker, inst, container, cstatus, km, kc,
                   kernels, latest_state, img_count, old_image_id, ncleanup,
                   acted, pre, last_call, last_out, assigned>>

\* cleanup, Docker, last try: `finally: self.container = None`
CFinally ==
    /\ lpc = "c_finally"
    /\ container' = NoneH
    /\ lpc' = "c_end"
    /\ UNCHANGED <<lifeOthers, use_docker, inst, cstatus, km, kc, containers,
                   kernels, latest_state, img_count, lop, old_image_id,
                   raised, ncleanup, acted, faulted, pre, last_call, last_out,
                   assigned>>

\* The locals of an operation that has returned
Forget ==
    /\ old_image_id' = BaseImage
    /\ acted' = FALSE
    /\ faulted' = FALSE
    /\ pre' = [cid |-> 0, running |-> FALSE, fs |-> {}, ns |-> EmptyNs]
    /\ lop' = "none"

\* cleanup returns: to its caller, or into the rest of reset() (an exception
\* that left cleanup leaves reset too)
CEnd ==
    /\ lpc = "c_end"
    /\ IF lop = "reset"
       THEN /\ lpc' = "r_start"
            /\ UNCHANGED <<old_image_id, acted, faulted, pre, lop>>
       ELSE /\ lpc' = "idle"
            /\ Forget
    /\ UNCHANGED <<lifeOthers, use_docker, inst, container, cstatus, km, kc,
                   containers, kernels, latest_state, img_count, raised,
                   ncleanup, last_call, last_out, assigned>>

\* reset() after cleanup(): _start_container(), or a new kernel manager and
\* client; when the start raises, reset() raises and nothing is replaced
RStart ==
    /\ lpc = "r_start"
    /\ \/ /\ lpc' = "idle"
          /\ Forget
          /\ UNCHANGED <<containers, container, cstatus, kernels, km, kc, ncleanup, assigned>>
       \/ /\ lpc' = "r_end"
          /\ UNCHANGED <<old_image_id, acted, faulted, pre, lop>>
          /\ ncleanup' = 0
          /\ assigned' = EmptyNs
          /\ IF use_docker
             THEN /\ containers' = [containers EXCEPT
                                      ![FreeContainer] = NewContainer(latest_state, inst)]
                  /\ container' = FreeContainer
                  /\ cstatus' = "running"
                  /\ UNCHANGED <<kernels, km, kc>>
             ELSE /\ kernels' = [kernels EXCEPT
                                   ![FreeKernel] = [status |-> "running", owner |-> inst]]
                  /\ km' = FreeKernel
                  /\ kc' = FreeKernel
                  /\ UNCHANGED <<containers, container, cstatus>>
    /\ UNCHANGED <<lifeOthers, use_docker, inst, latest_state, img_count,
                   raised, last_call, last_out>>

\* reset() returns
REnd ==
    /\ lpc = "r_end"
    /\ lpc' = "idle"
    /\ Forget
    /\ UNCHANGED <<lifeOthers, use_docker, inst, container, cstatus, km, kc,
                   containers, kernels, latest_state, img_count, raised,
                   ncleanup, last_call, last_out, assigned>>

\* Another CodeExecutor is constructed, __init__: by a later run of the
\* program, or by get_system_info (agent/utils.py) while the Agent's own
\* executor is in use
Construct ==
    /\ lpc = "idle"
    /\ IF use_docker THEN FreeContainer # 0 ELSE FreeKernel # 0
    /\ inst' = inst + 1
    /\ ncleanup' = 0
    /\ assigned' = EmptyNs
    /\ last_call' = Pass
    /\ last_out' = Out(None, None)
    /\ IF use_docker
       THEN /\ containers' = [containers EXCEPT
                                ![FreeContainer] = NewContainer(latest_state, inst + 1)]
            /\ container' = FreeContainer
            /\ cstatus' = "running"
            /\ UNCHANGED <<kernels, km, kc>>
       ELSE /\ kernels' = [kernels EXCEPT
                             ![FreeKernel] = [status |-> "running", owner |-> inst + 1]]
            /\ km' = FreeKernel
            /\ kc' = FreeKernel
            /\ UNCHANGED <<containers, container, cstatus>>
    /\ UNCHANGED <<lifeOthers, use_docker, latest_state, img_count, lpc, lop,
                   old_image_id, raised, acted, faulted, pre>>

\* The environment, between two operations: the executor's container stops
\* (its main process is killed) or is removed by someone else; its kernel
\* process dies
ContainerExits ==
    /\ lpc = "idle"
    /\ container > NoneH
    /\ containers[container].status = "running"
    /\ \E gone \in BOOLEAN :
        containers' = [containers EXCEPT
                         ![container] = IF gone THEN Removed(@) ELSE Stopped(@)]
    /\ UNCHANGED <<lifeOthers, use_docker, inst, container, cstatus, km, kc,
                   kernels, latest_state, img_count, lpc, lop, old_image_id,
                   raised, ncleanup, acted, faulted, pre, last_call, last_out,
                   assigned>>

KernelDies ==
    /\ lpc = "idle"
    /\ km > NoneH
    /\ kernels[km].status = "running"
    /\ kernels' = [kernels EXCEPT ![km].status = "dead"]
    /\ UNCHANGED <<lifeOthers, use_docker, inst, container, cstatus, km, kc,
                   containers, latest_state, img_count, lpc, lop,
                   old_image_id, raised, ncleanup, acted, faulted, pre,
                   last_call, last_out, assigned>>

NextLife ==
    \/ ExecuteLocal
    \/ ExecuteDocker
    \/ CleanupBegin
    \/ ResetBegin
    \/ KStop
    \/ KShutdown
    \/ CAttrs
    \/ CPs
    \/ CReload1
    \/ CGetOld
    \/ CStopOthers
    \/ CRmImage
    \/ CStart
    \/ CCommit1
    \/ CVerify
    \/ CReload2
    \/ CCommit2
    \/ CStop
    \/ CRemove
    \/ CFinally
    \/ CEnd
    \/ RStart
    \/ REnd
    \/ Construct
    \/ ContainerExits
    \/ KernelDies


(***************************************************************************)
(* One container session: CodeExecutor._execute_in_docker on the host      *)
(* (tools/code_execute.py) against the main loop of the server in the      *)
(* container (tools/python_server.py), through the files of /tmp/pyasco.   *)
(***************************************************************************)
\* `for _ in range(1200)`
PollLimit == 1200

\* The code the host submits in this specification
MailCodes == { Assign("x", "1"), Assign("x", "2"), PrintVar("x") }

\* A file of /tmp/pyasco that does not exist
NoInput == [present |-> FALSE, code |-> Pass, req |-> 0]
NoOutput == [present |-> FALSE, stdout |-> None, stderr |-> None, from |-> 0]

\* What execute() returned: the pair, and the request whose run produced
\* it (0 when the text was made by the host itself)
Result(o, e, from) == [stdout |-> o, stderr |-> e, from |-> from]

InitMail ==
    /\ hpc = "idle"
    /\ polls = 0
    /\ req = 0
    /\ hcode = Pass
    /\ result = Result(None, None, 0)
    /\ f_input = NoInput
    /\ f_exec_id = 0
    /\ f_output = NoOutput
    /\ f_done = FALSE
    /\ spc = "poll"
    /\ s_code = NoInput
    /\ s_out = Out(None, None)
    /\ kernel_ns = EmptyNs
    /\ srv_assigned = EmptyNs
    /\ f_errlog = 0

\* execute(code) is called: exec_id = str(time.time())
HostExecute ==
    /\ hpc \in {"idle", "returned"}
    /\ req < MaxRequests
    /\ \E code \in MailCodes : hcode' = code
    /\ req' = req + 1
    /\ polls' = 0
    /\ result' = Result(None, None, 0)
    /\ hpc' = "rm_output"
    /\ UNCHANGED <<mailOthers, f_errlog, f_input, f_exec_id, f_output, f_done, spc,
                   s_code, s_out, kernel_ns, srv_assigned>>

\* The host's call returns (o, e); its locals are gone
Return(o, e, from) ==
    /\ result' = Result(o, e, from)
    /\ hpc' = "returned"
    /\ hcode' = Pass
    /\ polls' = 0

\* exec_run(rm -f output.json done exec_id): the call fails, or rm starts
\* and unlinks output.json
HostRmOutput ==
    /\ hpc = "rm_output"
    /\ \/ /\ Return(None, "Failed to cleanup previous execution files", 0)
          /\ UNCHANGED f_output
       \/ /\ f_output' = NoOutput
          /\ hpc' = "rm_done"
          /\ UNCHANGED <<result, hcode, polls>>
    /\ UNCHANGED <<mailOthers, f_errlog, req, f_input, f_exec_id, f_done, spc,
                   s_code, s_out, kernel_ns, srv_assigned>>

\* rm unlinks done
HostRmDone ==
    /\ hpc = "rm_done"
    /\ f_done' = FALSE
    /\ hpc' = "rm_exec_id"
    /\ UNCHANGED <<mailOthers, f_errlog, polls, req, hcode, result, f_input, f_exec_id,
                   f_output, spc, s_code, s_out, kernel_ns, srv_assigned>>

\* An rm that leaves exec_id in place
HostRmExecId_keep ==
    /\ hpc = "rm_exec_id"
    /\ hpc' = "write_id"
    /\ UNCHANGED <<mailOthers, f_errlog, polls, req, hcode, result, f_input, f_output,
                   f_done, spc, s_code, s_out, kernel_ns, srv_assigned, f_exec_id>>

\* rm unlinks exec_id and exits with 0
HostRmExecId ==
    /\ hpc = "rm_exec_id"
    /\ f_exec_id' = 0
    /\ hpc' = "write_id"
    /\ UNCHANGED <<mailOthers, f_errlog, polls, req, hcode, result, f_input, f_output,
                   f_done, spc, s_code, s_out, kernel_ns, srv_assigned>>

\* exec_run(bash -c 'echo "{exec_id}" > exec_id && cat > input.py ...'):
\* the echo
HostWriteId ==
    /\ hpc = "write_id"
    /\ f_exec_id' = req
    /\ hpc' = "write_input"
    /\ UNCHANGED <<mailOthers, f_errlog, polls, req, hcode, result, f_input, f_output,
                   f_done, spc, s_code, s_out, kernel_ns, srv_assigned>>

\* ... the cat that writes input.py, or its failure
HostWriteInput ==
    /\ hpc = "write_input"
    /\ \/ /\ Return(None, "Failed to write input files", 0)
          /\ UNCHANGED f_input
       \/ /\ f_input' = [present |-> TRUE, code |-> hcode, req |-> req]
          /\ hpc' = "test_done"
          /\ hcode' = Pass
          /\ UNCHANGED <<result, polls>>
    /\ UNCHANGED <<mailOthers, f_errlog, req, f_exec_id, f_output, f_done, spc,
                   s_code, s_out, kernel_ns, srv_assigned>>

\* The poll loop has used up its iterations (a variant that never gives up)
PollsExhausted_never(n) == FALSE

\* `for _ in range(1200)` has run out
PollsExhausted(n) == n >= PollLimit

\* `if exec_run(['test', '-f', done]).exit_code == 0` ... else time.sleep(0.1)
HostTestDone ==
    /\ hpc = "test_done"
    /\ ~PollsExhausted(polls)
    /\ IF f_done
       THEN /\ hpc' = "cat_id"
            /\ UNCHANGED polls
       ELSE /\ polls' = polls + 1
            /\ UNCHANGED hpc
    /\ UNCHANGED <<mailOthers, f_errlog, req, hcode, result, f_input, f_exec_id,
                   f_output, f_done, spc, s_code, s_out, kernel_ns,
                   srv_assigned>>

\* `id_check.exit_code == 0 and id_check.output...strip() == exec_id`
IdMatches(id) == id # 0 /\ id = req

\* id_check = exec_run(['cat', exec_id]): break, or sleep and poll again
HostCatId ==
    /\ hpc = "cat_id"
    /\ IF IdMatches(f_exec_id)
       THEN /\ hpc' = "cat_output"
            /\ UNCHANGED polls
       ELSE /\ polls' = polls + 1
            /\ hpc' = "test_done"
    /\ UNCHANGED <<mailOthers, f_errlog, req, hcode, result, f_input, f_exec_id,
                   f_output, f_done, spc, s_code, s_out, kernel_ns,
                   srv_assigned>>

\* The else clause of the for loop: return None, "Execution timeout"
HostTimeout ==
    /\ hpc = "test_done"
    /\ PollsExhausted(polls)
    /\ Return(None, "Execution timeout", 0)
    /\ UNCHANGED <<mailOthers, f_errlog, req, f_input, f_exec_id, f_output,
                   f_done, spc, s_code, s_out, kernel_ns, srv_assigned>>

\* output = exec_run(['cat', output.json]); json.loads
HostCatOutput ==
    /\ hpc = "cat_output"
    /\ IF f_output.present
       THEN Return(f_output.stdout, f_output.stderr, f_output.from)
       ELSE Return(None, "Failed to read output", 0)
    /\ UNCHANGED <<mailOthers, f_errlog, req, f_input, f_exec_id, f_output,
                   f_done, spc, s_code, s_out, kernel_ns, srv_assigned>>

\* The namespace the server runs a submission in (a variant that gives
\* every submission a new module)
ServerNamespace_fresh(ns) == EmptyNs

\* The kernel started once at the top of python_server.py
ServerNamespace(ns) == ns

\* Server main loop: `if os.path.exists(input.py)`: code = f.read()
SrvRead ==
    /\ spc = "poll"
    /\ f_input.present
    /\ s_code' = f_input
    /\ spc' = "remove"
    /\ UNCHANGED <<mailOthers, f_errlog, hpc, polls, req, hcode, result, f_input,
                   f_exec_id, f_output, f_done, s_out, kernel_ns, srv_assigned>>

\* The except clause of the main loop: the error goes to error.log and the
\* loop starts over
SrvLogError ==
    /\ f_errlog' = f_errlog + 1
    /\ spc' = "poll"
    /\ s_code' = NoInput
    /\ s_out' = Out(None, None)

\* os.remove(input.py)
SrvRemove ==
    /\ spc = "remove"
    /\ f_input' = NoInput
    /\ spc' = IF f_input.present THEN "exec" ELSE "poll"
    /\ s_code' = IF f_input.present THEN s_code ELSE NoInput
    /\ f_errlog' = IF f_input.present THEN f_errlog ELSE f_errlog + 1
    /\ UNCHANGED <<mailOthers, hpc, polls, req, hcode, result, f_exec_id,
                   f_output, f_done, s_out, kernel_ns, srv_assigned>>

\* stdout, stderr = execute_code(code)
SrvExec ==
    /\ spc = "exec"
    /\ LET run == RunPython(ServerNamespace(kernel_ns), s_code.code)
       IN  /\ kernel_ns' = run.ns
           /\ s_out' = run.out
           /\ srv_assigned' = IF s_code.code.op = "assign"
                              THEN [srv_assigned EXCEPT ![s_code.code.var] = s_code.code.val]
                              ELSE srv_assigned
    /\ spc' = "write_out"
    /\ UNCHANGED <<mailOthers, f_errlog, hpc, polls, req, hcode, result, f_input,
                   f_exec_id, f_output, f_done, s_code>>

\* json.dump({'stdout': stdout, 'stderr': stderr}) into output.json, or
\* the open or the dump raises
SrvWriteOut ==
    /\ spc = "write_out"
    /\ \/ /\ f_output' = [present |-> TRUE, stdout |-> s_out.stdout,
                          stderr |-> s_out.stderr, from |-> s_code.req]
          /\ spc' = "write_done"
          /\ UNCHANGED <<f_errlog, s_code, s_out>>
       \/ /\ SrvLogError
          /\ UNCHANGED f_output
    /\ UNCHANGED <<mailOthers, hpc, polls, req, hcode, result, f_input,
                   f_exec_id, f_done, kernel_ns, srv_assigned>>

\* open(done, 'w').write('1'); the loop goes back to polling
SrvWriteDone ==
    /\ spc = "write_done"
    /\ f_done' = TRUE
    /\ spc' = "poll"
    /\ s_code' = NoInput
    /\ s_out' = Out(None, None)
    /\ UNCHANGED <<mailOthers, f_errlog, hpc, polls, req, hcode, result, f_input,
                   f_exec_id, f_output, kernel_ns, srv_assigned>>

\* reset() between two requests: a new container with a new server and a
\* new kernel; /tmp/pyasco is as the image the container starts from has it
\* (the committed state image keeps the files, the configured image has none)
MailReset ==
    /\ hpc \in {"idle", "returned"}
    /\ req < MaxRequests
    /\ spc' = "poll"
    /\ s_code' = NoInput
    /\ s_out' = Out(None, None)
    /\ kernel_ns' = EmptyNs
    /\ srv_assigned' = EmptyNs
    /\ \/ UNCHANGED <<f_input, f_exec_id, f_output, f_done, f_errlog>>
       \/ /\ f_input' = NoInput
          /\ f_exec_id' = 0
          /\ f_output' = NoOutput
          /\ f_done' = FALSE
          /\ f_errlog' = 0
    /\ UNCHANGED <<mailOthers, hpc, polls, req, hcode, result>>

NextMail ==
    \/ HostExecute
    \/ HostRmOutput
    \/ HostRmDone
    \/ HostRmExecId
    \/ HostWriteId
    \/ HostWriteInput
    \/ HostTestDone
    \/ HostCatId
    \/ HostTimeout
    \/ HostCatOutput
    \/ SrvRead
    \/ SrvRemove
    \/ SrvExec
    \/ SrvWriteOut
    \/ SrvWriteDone
    \/ MailReset

(***************************************************************************)
(* The Skill Manager (services/skill_manager.py)                           *)
(***************************************************************************)
\* ---- bounds of the model ----
MaxSkillCalls == 2

\* Skill names; the first two differ and still map to one file name
n_A_b == <<"A", " ", "b">>
n_a_b == <<"a", "_", "b">>
n_c == <<"c">>
SkillNames == {n_A_b, n_a_b, n_c}

Usages == {"u1", "u2"}

\* Code texts; CR and LF stand for the characters "\r" and "\n"
c_plain == <<"x", "LF", "y">>
c_crlf == <<"x", "CR", "LF", "y">>
Codes == {c_plain, c_crlf}

\* Requirement lists as parse_skill_response builds them; the last one is
\* what "REQUIREMENTS: a," parses to
r_a == <<"a">>
r_b == <<"b">>
r_none == <<>>
ReqLists == {<<>>, <<r_a>>, <<r_b, r_a>>, <<r_a, r_none>>}

\* requirements=None, the default of learn and improve_skill
NoReqs == << << "<None>" >> >>

\* What a caller can pass as requirements
ReqArgs == ReqLists \cup {NoReqs}

\* `if requirements:` is false for None and for the empty list
Truthy(requirements) == requirements \notin {NoReqs, <<>>}

\* The requirement strings of a list, none for None
ReqSet(requirements) ==
    IF requirements = NoReqs THEN {} ELSE {requirements[i] : i \in DOMAIN requirements}

\* ord() of the characters that occur in requirement names
Ord(c) == CASE c = " " -> 32 [] c = "a" -> 97 [] c = "b" -> 98 [] OTHER -> 0

\* str < str: the order sorted() uses
RECURSIVE StrLess(_, _)
StrLess(s, t) ==
    IF t = <<>> THEN FALSE
    ELSE IF s = <<>> THEN TRUE
    ELSE IF Ord(Head(s)) # Ord(Head(t)) THEN Ord(Head(s)) < Ord(Head(t))
    ELSE StrLess(Tail(s), Tail(t))

\* sorted(S) of a set of strings
RECURSIVE SortedStrs(_)
SortedStrs(S) ==
    IF S = {} THEN <<>>
    ELSE LET m == CHOOSE x \in S : \A y \in S \ {x} : StrLess(x, y)
         IN <<m>> \o SortedStrs(S \ {m})

\* str.strip()
RECURSIVE LStrip(_)
LStrip(s) ==
    IF s # <<>> /\ Head(s) \in {" ", "LF", "CR"} THEN LStrip(Tail(s)) ELSE s

RECURSIVE RStrip(_)
RStrip(s) ==
    IF s # <<>> /\ s[Len(s)] \in {" ", "LF", "CR"}
    THEN RStrip(SubSeq(s, 1, Len(s) - 1)) ELSE s

Strip(s) == LStrip(RStrip(s))

\* The elements of a sequence
Range(s) == {s[i] : i \in DOMAIN s}

\* learn: name.lower().replace(' ', '_') + ".py"
FilePath(name) ==
    [i \in 1..Len(name) |->
        IF LowerChar(name[i]) = " " THEN "_" ELSE LowerChar(name[i])]
    \o <<".", "p", "y">>

Paths == {FilePath(n) : n \in SkillNames}

\* A file that does not exist
NoFile == << "<absent>" >>

\* open(path, 'w').write(text): "\n" is written as os.linesep, which is "\n"
WriteText(text) == text

\* open(path, 'r').read(): universal newlines turn "\r\n" and "\r" into "\n"
RECURSIVE ReadText(_)
ReadText(data) ==
    IF data = <<>> THEN <<>>
    ELSE IF Head(data) = "CR"
    THEN IF Len(data) >= 2 /\ data[2] = "LF"
         THEN <<"LF">> \o ReadText(SubSeq(data, 3, Len(data)))
         ELSE <<"LF">> \o ReadText(Tail(data))
    ELSE <<Head(data)>> \o ReadText(Tail(data))

\* Skill(name, usage, file_path, requirements)
Skill(name, usage, file_path, requirements) ==
    [name |-> name, usage |-> usage, file_path |-> file_path,
     requirements |-> requirements]

\* A to_dict that writes no requirements
to_dict_noreq(skill) ==
    [name |-> skill.name, usage |-> skill.usage, file_path |-> skill.file_path,
     requirements |-> <<>>]

\* Skill.to_dict: `self.requirements or []`
to_dict(skill) ==
    [name |-> skill.name, usage |-> skill.usage, file_path |-> skill.file_path,
     requirements |-> IF Truthy(skill.requirements) THEN skill.requirements
                      ELSE <<>>]

\* Skill.from_dict
from_dict(data) ==
    Skill(data.name, data.usage, data.file_path, data.requirements)

\* A lookup that takes two names for one key when they give one file name
Index_path(m, name) ==
    IF \E i \in DOMAIN m : FilePath(m[i].name) = FilePath(name)
    THEN CHOOSE i \in DOMAIN m : FilePath(m[i].name) = FilePath(name)
    ELSE 0

\* SkillManager.skills is a dict: a sequence of skills in insertion order,
\* one per name.  Index(m, name) is 0 when the name is not a key.
Index(m, name) ==
    IF \E i \in DOMAIN m : m[i].name = name
    THEN CHOOSE i \in DOMAIN m : m[i].name = name
    ELSE 0

\* self.skills[name] = skill
Put(m, name, skill) ==
    IF Index(m, name) = 0 THEN Append(m, skill)
    ELSE [m EXCEPT ![Index(m, name)] = skill]

\* _save_manifest: what json.dump writes to manifest.json
save_manifest(m) == [i \in DOMAIN m |-> to_dict(m[i])]

\* _load_skills: a later entry of one name replaces the earlier one
RECURSIVE load_skills(_)
load_skills(manifest) ==
    IF manifest = <<>> THEN <<>>
    ELSE LET init == load_skills(SubSeq(manifest, 1, Len(manifest) - 1))
             skill == from_dict(manifest[Len(manifest)])
         IN Put(init, skill.name, skill)

\* _update_requirements: the lines of requirements.txt afterwards
update_requirements(lines, new_requirements) ==
    LET existing == {Strip(l) : l \in {x \in Range(lines) : Strip(x) # <<>>}}
        updated == existing \cup Range(new_requirements)
    IN SortedStrs(updated)

\* get_skill
get_skill(m, name) == IF Index(m, name) = 0 THEN None ELSE m[Index(m, name)]

\* get_skill_code(skill) of a skill that is not None: "" when its file is
\* missing
get_skill_code(files, skill) ==
    IF files[skill.file_path] = NoFile THEN <<>>
    ELSE ReadText(files[skill.file_path])

\* A manager call and what it returned: << >> for None, << skill >> for a
\* skill
SkCall(op, name, usage, code, requirements, ret) ==
    [op |-> op, name |-> name, usage |-> usage, code |-> code,
     requirements |-> requirements, ret |-> ret]

NoCall == SkCall("none", <<>>, None, <<>>, <<>>, <<>>)

TypeOKSkills ==
    /\ sk_skills \in Seq([name : SkillNames, usage : Usages, file_path : Paths,
                          requirements : ReqArgs])
    /\ DOMAIN sk_files = Paths
    /\ Len(sk_hist) <= MaxSkillCalls

\* A manager constructed on a directory that does not exist yet
InitSkills ==
    /\ sk_skills = <<>>
    /\ sk_files = [p \in Paths |-> NoFile]
    /\ sk_reqfile = <<>>
    /\ sk_manifest = <<>>
    /\ sk_last = NoCall
    /\ sk_hist = <<>>

\* SkillManager.learn: what one call does to the manager and its directory
learn(name, usage, code, requirements) ==
    LET file_path == FilePath(name)
        skill == Skill(name, usage, file_path, requirements)
    IN /\ sk_files' = [sk_files EXCEPT ![file_path] = WriteText(code)]
       /\ sk_reqfile' = IF Truthy(requirements)
                        THEN update_requirements(sk_reqfile, requirements)
                        ELSE sk_reqfile
       /\ sk_skills' = Put(sk_skills, name, skill)
       /\ sk_manifest' = save_manifest(sk_skills')
       /\ sk_last' = SkCall("learn", name, usage, code, requirements, <<skill>>)
       /\ sk_hist' = Append(sk_hist,
                            [op |-> "learn", name |-> name,
                             requirements |-> requirements])

\* A call of learn(name, usage, code, requirements)
Learn ==
    /\ Len(sk_hist) < MaxSkillCalls
    /\ \E name \in SkillNames, usage \in Usages, code \in Codes,
          requirements \in ReqArgs :
        learn(name, usage, code, requirements)
    /\ UNCHANGED skillOthers

\* An improve_skill that keeps the requirements the skill had
Improved_keep(skill, usage, requirements) == [skill EXCEPT !.usage = usage]

\* The skill object after improve_skill assigned its fields
Improved(skill, usage, requirements) ==
    [skill EXCEPT !.usage = usage, !.requirements = requirements]

\* SkillManager.improve_skill: what one call does to the manager and its
\* directory
improve_skill(name, usage, code, requirements) ==
    /\ IF Index(sk_skills, name) = 0
       THEN /\ sk_last' = SkCall("improve", name, usage, code, requirements, <<>>)
            /\ UNCHANGED <<sk_skills, sk_files, sk_reqfile, sk_manifest>>
       ELSE LET skill == sk_skills[Index(sk_skills, name)]
                after == Improved(skill, usage, requirements)
            IN /\ sk_files' = [sk_files EXCEPT
                                  ![skill.file_path] = WriteText(code)]
               /\ sk_reqfile' = IF Truthy(requirements)
                                THEN update_requirements(sk_reqfile, requirements)
                                ELSE sk_reqfile
               /\ sk_skills' = [sk_skills EXCEPT
                                   ![Index(sk_skills, name)] = after]
               /\ sk_manifest' = save_manifest(sk_skills')
               /\ sk_last' = SkCall("improve", name, usage, code, requirements,
                                    <<after>>)
    /\ sk_hist' = Append(sk_hist,
                         [op |-> "improve", name |-> name,
                          requirements |-> requirements])

\* A call of improve_skill(name, usage, code, requirements)
ImproveSkill ==
    /\ Len(sk_hist) < MaxSkillCalls
    /\ \E name \in SkillNames, usage \in Usages, code \in Codes,
          requirements \in ReqArgs :
        improve_skill(name, usage, code, requirements)
    /\ UNCHANGED skillOthers

\* SkillManager(skills_path) on the directory as it is: __init__ runs
\* _ensure_skills_structure and _load_skills
Reload ==
    /\ sk_last.op # "init"
    /\ sk_manifest # <<>>
    /\ sk_skills' = load_skills(sk_manifest)
    /\ sk_last' = SkCall("init", <<>>, None, <<>>, <<>>, <<>>)
    /\ UNCHANGED <<sk_files, sk_reqfile, sk_manifest, sk_hist>>
    /\ UNCHANGED skillOthers

NextSkills ==
    \/ Learn
    \/ ImproveSkill
    \/ Reload

(***************************************************************************)
(* The chat history between calls (agent/base.py) and what each turn sends *)
(* to the LLM client and yields to the caller                              *)
(* (agent/response_handler.py)                                             *)
(***************************************************************************)
\* Replies of the LLM in this part of the model
ChatReplies ==
    { <<>>,
      << CodeSnippet(s_python, Assign("x", "1")) >>,
      << CodeSnippet(s_javascript, Pass), CodeSnippet(s_Python3, PrintVar("x")) >> }

\* One chunk of a streamed completion: whether delta.content holds any
\* character, and the fenced blocks it holds
Delta(text, blocks) == [text |-> text, blocks |-> blocks]

\* A chunk whose delta.content is None or ""
EmptyDelta == Delta(FALSE, <<>>)

\* A chunk of plain text
TextDelta == Delta(TRUE, <<>>)

\* The blocks of a reply, one chunk each
ByBlock(reply) == [i \in 1..Len(reply) |-> Delta(TRUE, <<reply[i]>>)]

\* The chunk sequences the client can deliver for a reply
Streams(reply) ==
    { <<EmptyDelta, TextDelta>> \o ByBlock(reply),
      ByBlock(reply) \o <<EmptyDelta>> }

\* AgentResponse(content, tools, done).__dict__
AgentResponse(content, tools, done) ==
    [role |-> "assistant", content |-> content, tools |-> tools, done |-> done]

\* _handle_streaming_response: the chunk yielded for one delta
PartialResponse(delta) ==
    AgentResponse(Content("reply", delta.blocks, <<>>), <<>>, FALSE)

\* A final chunk that carries no tools
FinalResponse_notools(full_content) ==
    AgentResponse(Content("reply", full_content, <<>>), <<>>, TRUE)

\* _handle_streaming_response: the final chunk
FinalResponse(full_content) ==
    AgentResponse(Content("reply", full_content, <<>>),
                  create_tool_response(full_content), TRUE)

\* `for chunk in llm_response: if chunk.choices[0].delta.content:` passes
\* over the chunks that hold no content
RECURSIVE SkipEmpty(_)
SkipEmpty(deltas) ==
    IF deltas # <<>> /\ ~Head(deltas).text /\ Head(deltas).blocks = <<>>
    THEN SkipEmpty(Tail(deltas))
    ELSE deltas

\* ResponseHandler._prepare_messages
prepare_messages(msgs) ==
    [i \in DOMAIN msgs |->
        [k \in DOMAIN msgs[i] \ {"tools", "skills"} |-> msgs[i][k]]]

\* An _initialize_chat that appends nothing
initialize_chat_none(msgs) == msgs

\* Agent._initialize_chat
initialize_chat(msgs) == Append(msgs, SystemMessage)

\* The generator of a streaming turn: state is "none", "open" (created, not
\* exhausted) or "done"; deltas are the chunks not yet read, full is
\* full_content; bound tells that the list the generator appends to is still
\* Agent.messages; since counts the messages other calls appended to that
\* list after the generator was created
Generator(state, deltas, full, bound, since) ==
    [state |-> state, deltas |-> deltas, full |-> full, bound |-> bound,
     since |-> since]

NoGenerator == Generator("none", <<>>, <<>>, FALSE, 0)

\* The messages an open generator will still append to Agent.messages
Pending == IF sgen.state = "open" /\ sgen.bound THEN 1 ELSE 0

InitChat ==
    /\ sent = <<>>
    /\ sgen = NoGenerator
    /\ yielded = <<>>
    /\ ch_last = "none"

\* get_response(user_input, stream=False)
GetResponse ==
    /\ Len(messages) + Pending + 2 <= MaxMessages
    /\ \E reply \in ChatReplies :
        /\ sent' = prepare_messages(
                       Append(messages, UserMessage(Content("input", <<>>, <<>>))))
        /\ messages' = get_response(messages, Content("input", <<>>, <<>>), reply)
    /\ sgen' = IF sgen.bound THEN [sgen EXCEPT !.since = @ + 2] ELSE sgen
    /\ ch_last' = "get_response"
    /\ UNCHANGED <<yielded, apc, loop_count, max_loops, ask_base, executed, gen>>
    /\ UNCHANGED chatOthers

\* get_response(user_input, stream=True): the user message is stored, the
\* completion is requested, and an unstarted generator is returned; a
\* generator the caller still held is dropped
GetResponseStream ==
    /\ Len(messages) + 2 <= MaxMessages
    /\ \E reply \in ChatReplies : \E deltas \in Streams(reply) :
        sgen' = Generator("open", deltas, <<>>, TRUE, 0)
    /\ messages' = Append(messages, UserMessage(Content("input", <<>>, <<>>)))
    /\ sent' = prepare_messages(messages')
    /\ yielded' = <<>>
    /\ ch_last' = "stream"
    /\ UNCHANGED <<apc, loop_count, max_loops, ask_base, executed, gen>>
    /\ UNCHANGED chatOthers

\* next() on the generator: it runs to its next yield
StreamNext ==
    /\ sgen.state = "open"
    /\ LET rest == SkipEmpty(sgen.deltas)
       IN IF rest # <<>>
          THEN /\ yielded' = Append(yielded, PartialResponse(Head(rest)))
               /\ sgen' = [sgen EXCEPT !.deltas = Tail(rest),
                                           !.full = @ \o Head(rest).blocks]
               /\ UNCHANGED messages
          ELSE /\ yielded' = Append(yielded, FinalResponse(sgen.full))
               /\ messages' = IF sgen.bound
                              THEN Append(messages, FinalResponse(sgen.full))
                              ELSE messages
               /\ sgen' = [sgen EXCEPT !.state = "done", !.deltas = <<>>]
    /\ ch_last' = "next"
    /\ UNCHANGED <<sent, apc, loop_count, max_loops, ask_base, executed, gen>>
    /\ UNCHANGED chatOthers

\* stream_response of console.py: the buffer after the loop over the chunks
\* read from the generator.  A text is held as the sequence of its fenced
\* blocks, so `if chunk.content: buffer += chunk.content` appends the blocks
\* of every chunk that has any.
RECURSIVE stream_response(_)
stream_response(chunks) ==
    IF chunks = <<>> THEN <<>>
    ELSE LET chunk == chunks[Len(chunks)]
             buffer == stream_response(SubSeq(chunks, 1, Len(chunks) - 1))
         IN IF chunk.content.blocks # <<>>
            THEN buffer \o chunk.content.blocks
            ELSE buffer

\* The caller stops iterating and drops the generator
StreamAbandon ==
    /\ sgen.state = "open"
    /\ sgen' = NoGenerator
    /\ yielded' = <<>>
    /\ ch_last' = "abandon"
    /\ UNCHANGED <<sent, agentVars>>
    /\ UNCHANGED chatOthers

\* confirm() with pending tools: the tools are executed, the history is
\* not touched
Confirm ==
    /\ should_ask_user(messages)
    /\ ch_last # "confirm"
    /\ ch_last' = "confirm"
    /\ UNCHANGED <<sent, sgen, yielded, agentVars>>
    /\ UNCHANGED chatOthers

\* reset(): `self.messages = []`, then python_executor.reset(), which can
\* raise, then _initialize_chat().  A generator created before keeps the
\* list it was given.
ResetAgent ==
    /\ \E raises \in BOOLEAN :
        /\ messages' = IF raises THEN <<>> ELSE initialize_chat(<<>>)
        /\ ch_last' = IF raises THEN "reset_raised" ELSE "reset"
    /\ sgen' = [sgen EXCEPT !.bound = FALSE]
    /\ UNCHANGED <<sent, yielded, apc, loop_count, max_loops, ask_base, executed,
                   gen>>
    /\ UNCHANGED chatOthers

NextChat ==
    \/ GetResponse
    \/ GetResponseStream
    \/ StreamNext
    \/ StreamAbandon
    \/ Confirm
    \/ ResetAgent

(***************************************************************************)
(* Agent.learn_that_skill and Agent.improve_that_skill (agent/base.py):    *)
(* the retry loops around the LLM turn and the Skill Manager call          *)
(***************************************************************************)
\* ---- bounds of the model ----
MaxTeachCalls == 2

\* max_retries of learn_that_skill and of improve_that_skill
MaxRetries == 3

\* skill_name=None
NoName == << "<None>" >>

\* A name no skill has
n_z == <<"z">>

\* A reply to the skill prompt: the line "SKILL NAME: ..." it holds, if any
\* (a USAGE and a REQUIREMENTS line come with it), and its fenced blocks
TeachReply(header, blocks) == [header |-> header, blocks |-> blocks]

TeachReplies ==
    { TeachReply("SKILL NAME: c", << CodeSnippet(s_python, Assign("x", "1")) >>),
      TeachReply("SKILL NAME: a_b", << CodeSnippet(s_python, Assign("x", "1")) >>),
      TeachReply("SKILL NAME: A b", << CodeSnippet(s_python, PrintVar("x")) >>),
      TeachReply("SKILL NAME: c", <<>>),
      TeachReply("no header", << CodeSnippet(s_python, Assign("x", "1")) >>) }

\* Replies to the prompt that asks which skill to improve
IdentifyReplies == {"c", "z"}

\* response.content.strip() of such a reply
IdentifiedName(text) == IF text = "c" THEN n_c ELSE n_z

\* The message handle_response stores for these replies
TeachMessage(text, blocks) ==
    [role |-> "assistant", content |-> Content(text, blocks, <<>>),
     tools |-> create_tool_response(blocks), done |-> TRUE, skills |-> <<>>]

\* One get_response(prompt) on a history
Turn(msgs, prompt, text, blocks) ==
    Append(Append(msgs, UserMessage(Content(prompt, <<>>, <<>>))),
           TeachMessage(text, blocks))

\* parse_skill_response: the reply has a name, a usage and a first snippet
ParseOk(reply) == reply.header # "no header" /\ reply.blocks # <<>>

\* The text of the block `print(x)`
c_print == <<"p", "(", "x", ")">>

\* parse_skill_response: the name, usage, code and requirements it returns
\* for a reply that parses
Parsed(reply) ==
    [name |-> CASE reply.header = "SKILL NAME: c" -> n_c
                [] reply.header = "SKILL NAME: a_b" -> n_a_b
                [] OTHER -> n_A_b,
     usage |-> IF reply.header = "SKILL NAME: A b" THEN "u2" ELSE "u1",
     code |-> IF reply.blocks[1].content = PrintVar("x") THEN c_print ELSE c_plain,
     requirements |-> IF reply.header = "SKILL NAME: A b" THEN <<r_b, r_a>>
                      ELSE <<r_a>>]

\* The `except` clause of both loops
AttemptFailed ==
    /\ retry_count' = retry_count + 1
    /\ IF retry_count + 1 >= MaxRetries
       THEN t_pc' = "idle" /\ t_outcome' = "raised"
       ELSE t_pc' = "loop" /\ t_outcome' = "none"

\* The skills directory after learn("a_b", "u1", "x\ny", ["a"]) and
\* learn("A b", "u2", "p(x)", ["b", "a"]) of an earlier run: both skills
\* have the file a_b.py
TaughtSkills ==
    << Skill(n_a_b, "u1", FilePath(n_a_b), <<r_a>>),
       Skill(n_A_b, "u2", FilePath(n_A_b), <<r_b, r_a>>) >>

\* A manager constructed on a directory that does not exist yet, or on the
\* directory of an earlier run
InitSkillsTaught ==
    \/ InitSkills
    \/ /\ sk_skills = load_skills(save_manifest(TaughtSkills))
       /\ sk_files = [p \in Paths |->
                        IF p = FilePath(n_a_b) THEN WriteText(c_print) ELSE NoFile]
       /\ sk_reqfile = update_requirements(
                           update_requirements(<<>>, <<r_a>>), <<r_b, r_a>>)
       /\ sk_manifest = save_manifest(TaughtSkills)
       /\ sk_last = NoCall
       /\ sk_hist = <<>>

InitTeach ==
    /\ t_pc = "idle"
    /\ t_op = "none"
    /\ skill_name = NoName
    /\ retry_count = 0
    /\ t_attempts = 0
    /\ t_calls = 0
    /\ t_parsed = FALSE
    /\ t_outcome = "none"
    /\ t_ncalls = 0

\* A turn of conversation before anything is learnt
TeachChat ==
    /\ t_pc = "idle"
    /\ Len(messages) < 2
    /\ \E reply \in ChatReplies :
        messages' = get_response(messages, Content("input", <<>>, <<>>), reply)
    /\ UNCHANGED <<apc, loop_count, max_loops, ask_base, executed, gen>>
    /\ UNCHANGED <<teachVars, skillVars, teachOthers>>

\* A test that lets a history of the system message alone pass
NotEnoughHistory_empty(msgs) == Len(msgs) < 1

\* `if len(self.messages) < 2: raise ValueError(...)`
NotEnoughHistory(msgs) == Len(msgs) < 2

\* learn_that_skill() / improve_that_skill(skill_name) up to the loop
TeachBegin ==
    /\ t_pc = "idle"
    /\ t_ncalls < MaxTeachCalls
    /\ \E op \in {"learn", "improve"}, arg \in {NoName, n_c, n_a_b} :
        /\ op = "learn" => arg = NoName
        /\ t_op' = op
        /\ skill_name' = arg
    /\ t_ncalls' = t_ncalls + 1
    /\ retry_count' = 0
    /\ t_attempts' = 0
    /\ t_calls' = 0
    /\ t_parsed' = FALSE
    /\ IF NotEnoughHistory(messages)
       THEN t_pc' = "idle" /\ t_outcome' = "raised"
       ELSE t_pc' = "loop" /\ t_outcome' = "none"
    /\ UNCHANGED <<agentVars, skillVars, teachOthers>>

\* One pass of the loop of learn_that_skill
LearnAttempt ==
    /\ t_pc = "loop"
    /\ t_op = "learn"
    /\ t_attempts' = t_attempts + 1
    /\ \E reply \in TeachReplies :
        /\ messages' = Turn(messages, "learn prompt", reply.header, reply.blocks)
        /\ t_parsed' = ParseOk(reply)
        /\ IF ~ParseOk(reply)
           THEN /\ AttemptFailed
                /\ UNCHANGED <<t_calls, skillVars>>
           ELSE /\ t_calls' = t_calls + 1
                /\ \/ /\ learn(Parsed(reply).name, Parsed(reply).usage,
                               Parsed(reply).code, Parsed(reply).requirements)
                      /\ t_pc' = "idle"
                      /\ t_outcome' = "returned"
                      /\ UNCHANGED retry_count
                   \* f.write(code) raises UnicodeEncodeError, a ValueError:
                   \* the file is left empty and the loop catches the error
                   \/ /\ sk_files' = [sk_files EXCEPT
                                         ![FilePath(Parsed(reply).name)] = <<>>]
                      /\ UNCHANGED <<sk_skills, sk_reqfile, sk_manifest, sk_last,
                                     sk_hist>>
                      /\ AttemptFailed
                   \* open() raises OSError, which the loop does not catch
                   \/ /\ UNCHANGED skillVars
                      /\ t_pc' = "idle"
                      /\ t_outcome' = "raised other"
                      /\ UNCHANGED retry_count
    /\ UNCHANGED <<t_op, skill_name, t_ncalls>>
    /\ UNCHANGED <<apc, loop_count, max_loops, ask_base, executed, gen>>
    /\ UNCHANGED teachOthers

\* One pass of the loop of improve_that_skill
ImproveAttempt ==
    /\ t_pc = "loop"
    /\ t_op = "improve"
    /\ t_attempts' = t_attempts + 1
    /\ \E text \in IdentifyReplies, reply \in TeachReplies :
        LET identify == skill_name = NoName
            name == IF identify THEN IdentifiedName(text) ELSE skill_name
            msgs == IF identify
                    THEN Turn(messages, "identify prompt", text, <<>>)
                    ELSE messages
        IN /\ identify \/ text = "c"
           /\ skill_name' = name
           /\ IF Index(sk_skills, name) = 0
              THEN /\ messages' = msgs
                   /\ t_parsed' = FALSE
                   /\ AttemptFailed
                   /\ UNCHANGED <<t_calls, skillVars>>
              ELSE /\ messages' = Turn(msgs, "improve prompt", reply.header,
                                       reply.blocks)
                   /\ t_parsed' = ParseOk(reply)
                   /\ IF ~ParseOk(reply) \/ Parsed(reply).name # name
                      THEN /\ AttemptFailed
                           /\ UNCHANGED <<t_calls, skillVars>>
                      ELSE /\ t_calls' = t_calls + 1
                           /\ \/ /\ improve_skill(name, Parsed(reply).usage,
                                                  Parsed(reply).code,
                                                  Parsed(reply).requirements)
                                 /\ t_pc' = "idle"
                                 /\ t_outcome' = "returned"
                                 /\ UNCHANGED retry_count
                              \* open() raises OSError: `except Exception`
                              \* catches it
                              \/ /\ UNCHANGED skillVars
                                 /\ AttemptFailed
    /\ UNCHANGED <<t_op, t_ncalls>>
    /\ UNCHANGED <<apc, loop_count, max_loops, ask_base, executed, gen>>
    /\ UNCHANGED teachOthers

NextTeach ==
    \/ TeachChat
    \/ TeachBegin
    \/ LearnAttempt
    \/ ImproveAttempt

(***************************************************************************)
(* The skills of a turn: SkillHandler.get_relevant_skills and              *)
(* process_skills as Agent.get_response calls them (agent/skill_handler.py,*)
(* agent/base.py), and the same steps inside get_response of the Agent of  *)
(* agent.py                                                                *)
(***************************************************************************)
MaxTurns == 3
MaxLines == 2

\* The skills directory of this part, after learn("c", "u1", "x\ny", []) and
\* learn("a_b", "u1", "p(x)", ["a"])
LoadSkills ==
    << Skill(n_c, "u1", FilePath(n_c), <<>>),
       Skill(n_a_b, "u1", FilePath(n_a_b), <<r_a>>) >>

InitSkillsLoad ==
    /\ sk_skills = load_skills(save_manifest(LoadSkills))
    /\ sk_files = [p \in Paths |->
                     CASE p = FilePath(n_c) -> WriteText(c_plain)
                       [] p = FilePath(n_a_b) -> WriteText(c_print)
                       [] OTHER -> NoFile]
    /\ sk_reqfile = update_requirements(<<>>, <<r_a>>)
    /\ sk_manifest = save_manifest(LoadSkills)
    /\ sk_last = NoCall
    /\ sk_hist = <<>>

\* The line "none" of a reply to the skill prompt
NoneLine == <<"n", "o", "n", "e">>

\* A reply of the LLM to the skill prompt: its stripped, non-empty lines
SelectionLines == {n_c, n_a_b, n_z, NoneLine}
Selections == UNION {[1..k -> SelectionLines] : k \in 0..MaxLines}

\* The user's text of a turn
UserInputs == {<<>>, <<"h", "i">>}

\* agent/base.py passes the text of the turn where get_relevant_skills
\* expects the history: `msg['role']` of a character raises TypeError
RelevantRaises(skills, user_input) == skills # <<>> /\ user_input # <<>>

\* The skills the reply names, in the reply's order
get_relevant_skills(skills, reply) ==
    IF skills = <<>> THEN <<>>
    ELSE LET named == SelectSeq(reply, LAMBDA l : l # NoneLine /\ Index(skills, l) # 0)
         IN [i \in 1..Len(named) |-> skills[Index(skills, named[i])]]

\* The names recorded in the `skills` fields of the history
existing_skills(history) ==
    UNION {Range(history[i]) : i \in DOMAIN history}

\* `[skill for skill in relevant_skills if skill.name not in existing_skills]`
new_skills(relevant, history) ==
    SelectSeq(relevant, LAMBDA s : s.name \notin existing_skills(history))

\* The pip install of a skill's requirements reports "ERROR:"
Skipped(skill, fails) == Truthy(skill.requirements) /\ skill.name \in fails

\* One call of executor.execute
Exec(language, name) == [language |-> language, name |-> name]

\* The executor calls of the loop over the new skills
RECURSIVE ExecLog(_, _)
ExecLog(new, fails) ==
    IF new = <<>> THEN <<>>
    ELSE LET skill == Head(new)
             pip == IF Truthy(skill.requirements)
                    THEN << Exec("bash", skill.name) >> ELSE <<>>
             code == IF Skipped(skill, fails)
                     THEN <<>> ELSE << Exec("python", skill.name) >>
         IN pip \o code \o ExecLog(Tail(new), fails)

\* The skills that skills_info describes
Described(new, fails) ==
    LET shown == SelectSeq(new, LAMBDA s : ~Skipped(s, fails))
    IN [i \in DOMAIN shown |-> shown[i].name]

Names(list) == [i \in DOMAIN list |-> list[i].name]

InitLoad ==
    /\ ld_impl \in {"agent/base.py", "agent.py"}
    /\ ld_skills = <<>>
    /\ ld_exec = <<>>
    /\ ld_prompts = <<>>
    /\ ld_turns = 0
    /\ ld_raised = FALSE
    /\ ld_roles = <<"system">>

\* A handle_response that stores no reply
handle_response_silent(roles) == roles

\* ResponseHandler.handle_response without streaming (and the same lines of
\* get_response in agent.py): get_openai_response returns a text, never
\* raises, and the reply made of it is appended to the history
handle_response(roles) == Append(roles, "assistant")

\* What a turn does once the relevant skills are chosen; `recorded` is the
\* list the user message keeps in its `skills` field
LoadAndSend(relevant, recorded, fails) ==
    LET new == new_skills(relevant, ld_skills)
    IN /\ ld_exec' = ld_exec \o ExecLog(new, fails)
       /\ ld_prompts' = Append(ld_prompts, Described(new, fails))
       /\ ld_skills' = Append(ld_skills, Names(recorded))
       /\ ld_roles' = handle_response(Append(ld_roles, "user"))
       /\ ld_raised' = FALSE

\* Agent.get_response(user_input, stream=False) of agent/base.py
LoadTurn ==
    /\ ld_impl = "agent/base.py"
    /\ ld_turns < MaxTurns
    /\ ld_turns' = ld_turns + 1
    /\ \E user_input \in UserInputs, reply \in Selections, fails \in SUBSET {n_a_b} :
          IF RelevantRaises(sk_skills, user_input)
          THEN /\ ld_raised' = TRUE
               /\ UNCHANGED <<ld_skills, ld_exec, ld_prompts, ld_roles>>
          ELSE LET relevant == get_relevant_skills(sk_skills, reply)
               IN LoadAndSend(relevant, relevant, fails)
    /\ UNCHANGED <<ld_impl, loadOthers>>

\* Agent.get_response(user_input, stream=False) of agent.py
LoadTurnOld ==
    /\ ld_impl = "agent.py"
    /\ ld_turns < MaxTurns
    /\ ld_turns' = ld_turns + 1
    /\ \E reply \in Selections, fails \in SUBSET {n_a_b} :
          LET relevant == get_relevant_skills(sk_skills, reply)
          IN LoadAndSend(relevant, new_skills(relevant, ld_skills), fails)
    /\ UNCHANGED <<ld_impl, loadOthers>>

\* Agent.reset: a new history and a new sandbox
LoadReset ==
    /\ ld_turns < MaxTurns
    /\ ld_turns' = ld_turns + 1
    /\ ld_skills' = <<>>
    /\ ld_exec' = <<>>
    /\ ld_prompts' = <<>>
    /\ ld_raised' = FALSE
    /\ ld_roles' = <<"system">>
    /\ UNCHANGED <<ld_impl, loadOthers>>

NextLoad ==
    \/ LoadTurn
    \/ LoadTurnOld
    \/ LoadReset

(***************************************************************************)
(* extract_snippets on the characters of a markdown text                   *)
(* (services/code_snippet_extractor.py).  The parser reads the UTF-8 bytes *)
(* of the text and reports every node by its byte offsets.                 *)
(***************************************************************************)
MaxItems == 3

\* A character outside ASCII: two bytes in UTF-8
c_eacute == "U+00E9"

\* The text written from: lines of prose and fenced blocks (info string,
\* << >> for none; body, << >> when the close fence follows the open fence)
Paras == { <<"x">>, <<c_eacute>> }
Infos == { <<>>, <<"p", "y">> }
Bodies == { <<>>, <<"x">>, <<"y">>, <<" ", "x">> }
Para(text) == [kind |-> "para", text |-> text, info |-> <<>>, body |-> <<>>]
FencedBlock(info, body) == [kind |-> "fence", text |-> <<>>, info |-> info, body |-> body]
Items ==
    {Para(t) : t \in Paras} \cup {FencedBlock(i, b) : i \in Infos, b \in Bodies}
Docs == UNION {[1..k -> Items] : k \in 0..MaxItems}

\* The three backquotes of a fence
Fence == <<"BQ", "BQ", "BQ">>

\* The characters of a document
RECURSIVE Render(_)
Render(doc) ==
    IF doc = <<>> THEN <<>>
    ELSE LET it == Head(doc)
         IN (IF it.kind = "para" THEN it.text \o <<"LF">>
             ELSE Fence \o it.info \o <<"LF">>
                  \o (IF it.body = <<>> THEN <<>> ELSE it.body \o <<"LF">>)
                  \o Fence \o <<"LF">>)
            \o Render(Tail(doc))

\* bytes(markdown_text, "utf8"): one byte per ASCII character, two for the
\* other
RECURSIVE Utf8(_)
Utf8(text) ==
    IF text = <<>> THEN <<>>
    ELSE (IF Head(text) = c_eacute THEN <<"0xC3", "0xA9">> ELSE << Head(text) >>)
         \o Utf8(Tail(text))

\* bytes.decode()
RECURSIVE Decode(_)
Decode(b) ==
    IF b = <<>> THEN <<>>
    ELSE IF Len(b) >= 2 /\ b[1] = "0xC3" /\ b[2] = "0xA9"
         THEN <<c_eacute>> \o Decode(SubSeq(b, 3, Len(b)))
         ELSE << Head(b) >> \o Decode(Tail(b))

\* The position of the line feed that ends the line starting at i, or one
\* past the end
RECURSIVE LineEnd(_, _)
LineEnd(b, i) ==
    IF i > Len(b) \/ b[i] = "LF" THEN i ELSE LineEnd(b, i + 1)

FenceAt(b, i) == i + 2 <= Len(b) /\ SubSeq(b, i, i + 2) = Fence

\* The start of the first line at or after i that is a fence, or one past
\* the end
RECURSIVE CloseFence(_, _)
CloseFence(b, i) ==
    IF i > Len(b) \/ FenceAt(b, i) THEN i ELSE CloseFence(b, LineEnd(b, i) + 1)

NoNode == <<>>

\* The fenced_code_block nodes of the syntax tree in document order: the
\* byte range of the info_string child and the bytes of the
\* code_fence_content child, NoNode for a child the block does not have
RECURSIVE Parse(_, _)
Parse(b, i) ==
    IF i > Len(b) THEN <<>>
    ELSE LET e == LineEnd(b, i)
         IN IF FenceAt(b, i)
            THEN LET close == CloseFence(b, e + 1)
                     node == [info_string |->
                                 IF e > i + 3 THEN << i + 2, e - 1 >> ELSE NoNode,
                              code_fence_content |->
                                 IF close > e + 1 /\ e < Len(b)
                                 THEN SubSeq(b, e + 1, close - 1) ELSE NoNode]
                 IN << node >> \o Parse(b, LineEnd(b, close) + 1)
            ELSE Parse(b, e + 1)

\* text[start:end] of Python
Slice(text, start, end) ==
    SubSeq(text, start + 1, IF end > Len(text) THEN Len(text) ELSE end)

\* An extractor that leaves out the blocks without a code_fence_content child
Snippets_nonempty(text, nodes) ==
    LET kept == SelectSeq(nodes, LAMBDA n : n.code_fence_content # NoNode)
    IN [k \in DOMAIN kept |->
          CodeSnippet(IF kept[k].info_string = NoNode THEN NoLanguage
                      ELSE Slice(text, kept[k].info_string[1], kept[k].info_string[2]),
                      Strip(Decode(kept[k].code_fence_content)))]

\* The loop body of extract_snippets on the fenced_code_block nodes
Snippets(text, nodes) ==
    [k \in DOMAIN nodes |->
        CodeSnippet(IF nodes[k].info_string = NoNode THEN NoLanguage
                    ELSE Slice(text, nodes[k].info_string[1], nodes[k].info_string[2]),
                    Strip(Decode(nodes[k].code_fence_content)))]

\* extract_snippets(markdown_text)
extract_from_text(markdown_text) ==
    Snippets(markdown_text, Parse(Utf8(markdown_text), 1))

InitExtract ==
    /\ ex_doc \in Docs
    /\ ex_text = Render(ex_doc)
    /\ ex_out = <<>>
    /\ ex_done = FALSE

ExtractSnippets ==
    /\ ~ex_done
    /\ ex_out' = extract_from_text(ex_text)
    /\ ex_done' = TRUE
    /\ UNCHANGED <<ex_doc, ex_text, extractOthers>>

NextExtract == ExtractSnippets

(***************************************************************************)
(* The front ends: main of app/console.py, and main, handle_message and    *)
(* handle_button of app/telegram_bot.py.  The Agent is their environment:  *)
(* each call of it returns or raises.                                      *)
(***************************************************************************)
MaxInputs == 2
MaxUpdates == 2

\* console.py: MAX_FOLLOW_UP_LOOPS
MAX_FOLLOW_UP_LOOPS == 5

\* telegram_bot.py: MAX_MESSAGE_LENGTH
MAX_MESSAGE_LENGTH == 4096

\* How a call made by a front end ends
Outcomes == {"returns", "Exception", "KeyboardInterrupt"}

\* The lines typed at the console prompt
Lines == {"%exit", "%reset", "%learn_that_skill", "%improve_that_skill", "text"}

InitFront ==
    /\ co_pc = "new"
    /\ co_agent = FALSE
    /\ co_loop_count = 0
    /\ co_cleanups = 0
    /\ co_stop = "none"
    /\ co_raised = "none"
    /\ co_shown = "none"
    /\ co_inputs = 0
    /\ tg_pc = "new"
    /\ tg_agent = FALSE
    /\ tg_cleanups = 0
    /\ tg_stop = "none"
    /\ tg_sent = <<>>
    /\ tg_raised = FALSE
    /\ tg_escaped = FALSE
    /\ tg_updates = 0

consoleVars == <<co_pc, co_agent, co_loop_count, co_cleanups, co_stop, co_raised,
                 co_shown, co_inputs>>
botVars == <<tg_pc, tg_agent, tg_cleanups, tg_stop, tg_sent, tg_raised,
             tg_escaped, tg_updates>>

\* `agent = Agent(config)` and the welcome text
ConsoleStart ==
    /\ co_pc = "new"
    /\ \/ /\ co_agent' = TRUE
          /\ co_pc' = "prompt"
          /\ co_shown' = "welcome"
          /\ UNCHANGED co_stop
       \/ /\ co_pc' = "stopped"
          /\ co_stop' = "no agent"
          /\ co_shown' = "traceback"
          /\ UNCHANGED co_agent
    /\ UNCHANGED <<co_loop_count, co_cleanups, co_raised, co_inputs, botVars,
                   frontOthers>>

\* main leaves its try block: the except clause for KeyboardInterrupt, then
\* `finally: agent.cleanup()`
ConsoleLeave(why, exc) ==
    /\ co_pc' = "stopped"
    /\ co_stop' = why
    /\ co_raised' = exc
    /\ co_cleanups' = co_cleanups + 1
    /\ co_shown' = CASE exc = "KeyboardInterrupt" -> "Exiting..."
                     [] exc = "none" -> co_shown
                     [] OTHER -> "traceback"

\* The turn ends, after catching `exc` if it is not "none", and the loop
\* goes on at `where`
ConsoleGoOn(where, shown, exc) ==
    /\ co_pc' = where
    /\ co_shown' = shown
    /\ co_raised' = exc
    /\ UNCHANGED <<co_stop, co_cleanups>>

\* The turn raises `how` inside the try block of main
ConsoleRaises(how) ==
    ConsoleLeave(IF how = "KeyboardInterrupt" THEN "interrupt" ELSE "exception", how)

\* One pass of the loop that asks for a line: session.prompt and the magic
\* commands
ConsolePrompt ==
    /\ co_pc = "prompt"
    /\ co_inputs < MaxInputs
    /\ co_inputs' = co_inputs + 1
    /\ co_loop_count' = 0
    /\ \/ \E how \in {"KeyboardInterrupt", "EOFError"} : ConsoleRaises(how)
       \/ \E line \in Lines, out \in Outcomes \cup {"ValueError"} :
             CASE line = "%exit" -> ConsoleLeave("exit", "none")
               [] line = "text" -> ConsoleGoOn("respond", co_shown, "none")
               [] line = "%reset" ->
                     IF out = "returns"
                     THEN ConsoleGoOn("prompt", "Chat history reset!", "none")
                     ELSE ConsoleRaises(out)
               [] OTHER ->
                     CASE out = "returns" -> ConsoleGoOn("prompt", "skill", "none")
                       [] out = "ValueError" ->
                             ConsoleGoOn("prompt", "Error: " \o line, "ValueError")
                       [] OTHER -> ConsoleRaises(out)
    /\ UNCHANGED <<co_agent, botVars, frontOthers>>

\* `response = agent.get_response(user_input, stream=True)`,
\* stream_response(response) and agent.should_ask_user()
ConsoleRespond ==
    /\ co_pc = "respond"
    /\ \E out \in Outcomes, tools \in BOOLEAN :
          IF out = "returns"
          THEN ConsoleGoOn(IF tools THEN "confirm" ELSE "prompt", "reply", "none")
          ELSE ConsoleRaises(out)
    /\ UNCHANGED <<co_agent, co_loop_count, co_inputs, botVars, frontOthers>>

\* Confirm.ask, agent.confirm() and the follow-up
ConsoleConfirm ==
    /\ co_pc = "confirm"
    /\ \E yes \in BOOLEAN, out \in Outcomes, results \in BOOLEAN :
          IF out # "returns"
          THEN ConsoleRaises(out) /\ UNCHANGED co_loop_count
          ELSE IF ~yes \/ ~results
          THEN ConsoleGoOn("prompt", co_shown, "none") /\ UNCHANGED co_loop_count
          ELSE /\ co_loop_count' = co_loop_count + 1
               /\ IF co_loop_count' >= MAX_FOLLOW_UP_LOOPS
                  THEN /\ ConsoleLeave("cap", "none")
                  ELSE ConsoleGoOn("respond", "Execution Output", "none")
    /\ UNCHANGED <<co_agent, co_inputs, botVars, frontOthers>>

NextConsole ==
    \/ ConsoleStart
    \/ ConsolePrompt
    \/ ConsoleRespond
    \/ ConsoleConfirm

\* ---- Telegram ----

\* One call of reply_text, reply_photo or reply_document
Sent(kind, what, length) == [kind |-> kind, what |-> what, length |-> length]

Processing == Sent("text", "processing", 28)
Apology == Sent("text", "apology", 62)
Question == Sent("text", "question", 41)

\* The lengths of the texts the Agent returns
ReplyLengths == {1, MAX_MESSAGE_LENGTH, MAX_MESSAGE_LENGTH + 1}

\* The length of the one result of agent.confirm(); 0 for no results
ResultLengths == {0, 1, MAX_MESSAGE_LENGTH - 19, MAX_MESSAGE_LENGTH - 18}

\* The platform refuses a text above its ceiling: the call raises
Refused(msg) == msg.kind = "text" /\ msg.length > MAX_MESSAGE_LENGTH

\* The calls made when the messages are sent one after the other, up to the
\* first that raises
RECURSIVE SendAll(_)
SendAll(msgs) ==
    IF msgs = <<>> THEN <<>>
    ELSE IF Refused(Head(msgs)) THEN << Head(msgs) >>
    ELSE << Head(msgs) >> \o SendAll(Tail(msgs))

AnyRefused(msgs) == \E i \in DOMAIN msgs : Refused(msgs[i])

\* `agent = Agent(config)`, `interface = TelegramInterface(agent, ...)`
BotStart ==
    /\ tg_pc = "new"
    /\ \/ /\ tg_agent' = TRUE
          /\ tg_pc' = "agent"
          /\ UNCHANGED tg_stop
       \/ /\ tg_pc' = "stopped"
          /\ tg_stop' = "no agent"
          /\ UNCHANGED tg_agent
    /\ UNCHANGED <<tg_cleanups, tg_sent, tg_raised, tg_escaped, tg_updates,
                   consoleVars, frontOthers>>

\* `application = Application.builder().token(...).build()` in its try
\* block, and the handlers
BotBuild ==
    /\ tg_pc = "agent"
    /\ \/ /\ tg_pc' = "polling"
          /\ UNCHANGED tg_stop
       \/ /\ tg_pc' = "stopped"
          /\ tg_stop' = "create failed"
    /\ UNCHANGED <<tg_agent, tg_cleanups, tg_sent, tg_raised, tg_escaped,
                   tg_updates, consoleVars, frontOthers>>

\* application.run_polling raises or returns: the except clause, then
\* `finally: agent.cleanup()`
BotStop ==
    /\ tg_pc = "polling"
    /\ tg_pc' = "stopped"
    /\ \E why \in {"start failed", "stopped", "interrupt"} : tg_stop' = why
    /\ tg_cleanups' = tg_cleanups + 1
    /\ UNCHANGED <<tg_agent, tg_sent, tg_raised, tg_escaped, tg_updates,
                   consoleVars, frontOthers>>

\* The messages handle_message prepares from a reply
messages_to_send(reply) ==
    IF reply.snippets > 0
    THEN (IF reply.length > 0
          THEN << Sent("text", "reply", reply.length) >> ELSE <<>>)
         \o [i \in 1..reply.snippets |-> Sent("photo", "code", 0)]
    ELSE << Sent("text", "reply", reply.length) >>

\* A reply of agent.ask: the length of its text outside the code blocks,
\* the number of its code blocks and whether tools are pending after it
BotReplies ==
    [length : ReplyLengths \cup {0}, snippets : {0, 1}, tools : BOOLEAN]

\* handle_message
HandleMessage ==
    /\ tg_pc = "polling"
    /\ tg_updates < MaxUpdates
    /\ tg_updates' = tg_updates + 1
    /\ \E process \in BOOLEAN, out \in {"returns", "Exception"}, reply \in BotReplies :
          IF ~process
          THEN tg_sent' = <<>> /\ tg_raised' = FALSE
          ELSE IF out # "returns"
          THEN /\ tg_sent' = << Processing, Apology >>
               /\ tg_raised' = TRUE
          ELSE IF AnyRefused(messages_to_send(reply))
          THEN /\ tg_sent' = << Processing >> \o SendAll(messages_to_send(reply))
                                \o << Apology >>
               /\ tg_raised' = TRUE
          ELSE /\ tg_sent' = << Processing >> \o messages_to_send(reply)
                                \o (IF reply.tools THEN << Question >> ELSE <<>>)
               /\ tg_raised' = FALSE
    /\ tg_escaped' = FALSE
    /\ UNCHANGED <<tg_pc, tg_agent, tg_cleanups, tg_stop, consoleVars, frontOthers>>

\* The output message of handle_button: "Execution Output:\n" and one line
\* per result, as a file when it is too long
OutputMessage(res) ==
    LET length == 18 + res + 1
    IN IF length > MAX_MESSAGE_LENGTH
       THEN Sent("document", "output", length)
       ELSE Sent("text", "output", length)

\* handle_button
HandleButton ==
    /\ tg_pc = "polling"
    /\ tg_updates < MaxUpdates
    /\ tg_updates' = tg_updates + 1
    /\ \E data \in {"execute_yes", "execute_no"}, confirm \in {"returns", "Exception"},
          res \in ResultLengths, out \in {"returns", "Exception"},
          length \in ReplyLengths, tools \in BOOLEAN :
          LET answer == << Sent("text", "reply", length) >>
              asked == IF tools THEN << Question >> ELSE <<>>
          IN IF data = "execute_no"
             THEN IF out # "returns"
                  THEN tg_sent' = <<>> /\ tg_raised' = TRUE
                  ELSE tg_sent' = answer /\ tg_raised' = Refused(answer[1])
             ELSE IF confirm # "returns"
             THEN tg_sent' = <<>> /\ tg_raised' = TRUE
             ELSE IF res = 0
             THEN tg_sent' = <<>> /\ tg_raised' = FALSE
             ELSE IF out # "returns"
             THEN tg_sent' = << OutputMessage(res) >> /\ tg_raised' = TRUE
             ELSE IF Refused(answer[1])
             THEN tg_sent' = << OutputMessage(res) >> \o answer /\ tg_raised' = TRUE
             ELSE /\ tg_sent' = << OutputMessage(res) >> \o answer \o asked
                  /\ tg_raised' = FALSE
    /\ tg_escaped' = tg_raised'
    /\ UNCHANGED <<tg_pc, tg_agent, tg_cleanups, tg_stop, consoleVars, frontOthers>>

NextBot ==
    \/ BotStart
    \/ BotBuild
    \/ BotStop
    \/ HandleMessage
    \/ HandleButton

NextFront == NextConsole \/ NextBot

(***************************************************************************)
(* One call of ToolHandler.execute_tools on a pending tool call            *)
(* (agent/tool_handler.py) and the path CodeExecutor.execute takes for     *)
(* each snippet it is given (tools/code_execute.py)                        *)
(***************************************************************************)
MaxSnippets == 2

\* The info strings and the bodies of the blocks of a reply
ToolLanguages ==
    {NoLanguage, s_python, s_bash, s_Python3, s_javascript, s_BASH, s_bash_x}
ToolCodes == {Assign("x", "1"), PrintVar("x"), Install("pkg")}

\* The snippet lists a pending tool call can hold
ToolInputs ==
    UNION {[1..n -> {CodeSnippet(l, c) : l \in ToolLanguages, c \in ToolCodes}] :
              n \in 1..MaxSnippets}

\* CodeExecutor.execute: `if language.lower() == 'bash'` takes the shell
\* path, everything else the Python path
execute_path(language) == IF Lower(language) = s_bash THEN "bash" ELSE "python"

InitTools ==
    /\ tl_outs = <<>>
    /\ tl_results = <<>>
    /\ tl_calls = <<>>
    /\ tl_done = FALSE

\* execute_tools(tools) on the tool call made of the snippets
ExecuteTools ==
    /\ ~tl_done
    /\ tl_snippets # <<>>
    /\ \E outs \in PossibleOuts(tl_snippets) :
          /\ tl_outs' = outs
          /\ tl_results' = execute_tools(create_tool_response(tl_snippets), outs)
    /\ tl_calls' = ExecCalls(tl_snippets)
    /\ tl_done' = TRUE
    /\ UNCHANGED <<tl_snippets, toolOthers>>

NextTools == ExecuteTools

(***************************************************************************)
(* The Yes / No buttons of one Telegram chat: handle_message offers them   *)
(* after a reply with tools, handle_button answers a press with            *)
(* Agent.confirm (app/telegram_bot.py, agent/base.py)                      *)
(***************************************************************************)
MaxReplies == 3
MaxPresses == 3

\* The last message of Agent.messages: the number of the reply it is, 0 for
\* the system message, and whether it carries tools
LastMessage(reply, tools) == [reply |-> reply, tools |-> tools]

\* One press handled: the reply whose buttons were pressed, callback_data,
\* and the reply whose tools were executed, 0 for none
Press(button, data, ran) == [button |-> button, data |-> data, executed |-> ran]

InitButtons ==
    /\ bt_last = LastMessage(0, FALSE)
    /\ bt_replies = 0
    /\ bt_buttons = {}
    /\ bt_runs = <<>>

\* Agent.confirm: the reply whose tools are handed to execute_tools, 0 when
\* the last message has none
agent_confirm(last) == IF last.tools THEN last.reply ELSE 0

\* get_response stores a reply; the handler offers the buttons when
\* should_ask_user() holds after it
StoreReply(tools, offer) ==
    /\ bt_replies < MaxReplies
    /\ bt_replies' = bt_replies + 1
    /\ bt_last' = LastMessage(bt_replies', tools)
    /\ bt_buttons' = IF offer /\ tools THEN bt_buttons \cup {bt_replies'}
                     ELSE bt_buttons

\* handle_message: agent.ask stores a reply, and the buttons are offered
\* when it has tools
ButtonMessage ==
    /\ \E tools \in BOOLEAN : StoreReply(tools, TRUE)
    /\ UNCHANGED <<bt_runs, buttonOthers>>

\* handle_button with "execute_yes", pressed on the buttons of any reply
\* that are in the chat: the callback data does not name the reply
ButtonYes ==
    /\ Len(bt_runs) < MaxPresses
    /\ \E button \in bt_buttons, results \in BOOLEAN :
        /\ bt_runs' = Append(bt_runs,
                             Press(button, "execute_yes", agent_confirm(bt_last)))
        /\ IF agent_confirm(bt_last) # 0 /\ results
           THEN \E tools \in BOOLEAN : StoreReply(tools, TRUE)
           ELSE UNCHANGED <<bt_last, bt_replies, bt_buttons>>
    /\ UNCHANGED buttonOthers

\* handle_button with "execute_no": get_response("no") stores a reply and
\* no buttons are offered for it
ButtonNo ==
    /\ Len(bt_runs) < MaxPresses
    /\ \E button \in bt_buttons, tools \in BOOLEAN :
        /\ bt_runs' = Append(bt_runs, Press(button, "execute_no", 0))
        /\ StoreReply(tools, FALSE)
    /\ UNCHANGED buttonOthers

NextButtons ==
    \/ ButtonMessage
    \/ ButtonYes
    \/ ButtonNo

(***************************************************************************)
(* Specifications                                                          *)
(***************************************************************************)
PinMail == InitMail

PinSkills == InitSkills

PinChat == InitChat

PinTeach == InitTeach

PinExtract ==
    /\ ex_doc = <<>>
    /\ ex_text = <<>>
    /\ ex_out = <<>>
    /\ ex_done = FALSE

PinFront == InitFront

PinTools == InitTools /\ tl_snippets = <<>>

PinButtons == InitButtons

PinLoad ==
    /\ ld_impl = "agent/base.py"
    /\ ld_skills = <<>>
    /\ ld_exec = <<>>
    /\ ld_prompts = <<>>
    /\ ld_turns = 0
    /\ ld_raised = FALSE
    /\ ld_roles = <<"system">>

\* The Agent
Init == InitAgent /\ PinLife /\ PinMail /\ PinSkills /\ PinChat /\ PinTeach
    /\ PinLoad
    /\ PinExtract
    /\ PinFront
    /\ PinTools
    /\ PinButtons

Next == NextAgent

Spec == Init /\ [][Next]_vars

\* The Code Executor lifecycle
InitLifeSpec == InitAgent /\ InitLife /\ PinMail /\ PinSkills /\ PinChat /\ PinTeach
    /\ PinLoad
    /\ PinExtract
    /\ PinFront
    /\ PinTools
    /\ PinButtons

SpecLife == InitLifeSpec /\ [][NextLife]_vars

\* One container session
InitMailSpec == InitAgent /\ PinLife /\ InitMail /\ PinSkills /\ PinChat /\ PinTeach
    /\ PinLoad
    /\ PinExtract
    /\ PinFront
    /\ PinTools
    /\ PinButtons

SpecMailbox == InitMailSpec /\ [][NextMail]_vars

\* The steps of the host thread inside a call of _execute_in_docker: the
\* thread runs on until the call returns
HostRun ==
    \/ HostRmOutput
    \/ HostRmDone
    \/ HostRmExecId
    \/ HostWriteId
    \/ HostWriteInput
    \/ HostTestDone
    \/ HostCatId
    \/ HostTimeout
    \/ HostCatOutput

\* One container session in which the host thread is scheduled; nothing is
\* assumed about the server
SpecMailboxFair == SpecMailbox /\ WF_vars(HostRun)

\* The Skill Manager on one skills directory
InitSkillsSpec == InitAgent /\ PinLife /\ PinMail /\ InitSkills /\ PinChat /\ PinTeach
    /\ PinLoad
    /\ PinExtract
    /\ PinFront
    /\ PinTools
    /\ PinButtons

SpecSkills == InitSkillsSpec /\ [][NextSkills]_vars

\* One chat: turns, streaming generators, confirm and reset
InitChatSpec == InitAgent /\ PinLife /\ PinMail /\ PinSkills /\ InitChat /\ PinTeach
    /\ PinLoad
    /\ PinExtract
    /\ PinFront
    /\ PinTools
    /\ PinButtons

SpecChat == InitChatSpec /\ [][NextChat]_vars

\* learn_that_skill and improve_that_skill on one chat and one skills
\* directory
InitTeachSpec ==
    InitAgent /\ PinLife /\ PinMail /\ InitSkillsTaught /\ PinChat /\ InitTeach
    /\ PinLoad
    /\ PinExtract
    /\ PinFront
    /\ PinTools
    /\ PinButtons

SpecTeach == InitTeachSpec /\ [][NextTeach]_vars

\* The skills of the turns of one Agent on one skills directory
InitLoadSpec ==
    InitAgent /\ PinLife /\ PinMail /\ (InitSkillsLoad \/ InitSkills)
    /\ PinChat /\ PinTeach
    /\ InitLoad
    /\ PinExtract
    /\ PinFront
    /\ PinTools
    /\ PinButtons

SpecLoad == InitLoadSpec /\ [][NextLoad]_vars

\* extract_snippets on one markdown text
InitExtractSpec ==
    InitAgent /\ PinLife /\ PinMail /\ PinSkills /\ PinChat /\ PinTeach
    /\ PinLoad /\ InitExtract
    /\ PinFront
    /\ PinTools
    /\ PinButtons

SpecExtract == InitExtractSpec /\ [][NextExtract]_vars

\* The two front ends, each with its own Agent
InitFrontSpec ==
    InitAgent /\ PinLife /\ PinMail /\ PinSkills /\ PinChat /\ PinTeach
    /\ PinLoad /\ PinExtract /\ InitFront
    /\ PinTools
    /\ PinButtons

SpecFront == InitFrontSpec /\ [][NextFront]_vars

\* One execute_tools call on a pending tool call
InitToolsSpec ==
    InitAgent /\ PinLife /\ PinMail /\ PinSkills /\ PinChat /\ PinTeach
    /\ PinLoad /\ PinExtract /\ PinFront
    /\ InitTools /\ tl_snippets \in ToolInputs
    /\ PinButtons

SpecTools == InitToolsSpec /\ [][NextTools]_vars

\* The buttons of one Telegram chat
InitButtonsSpec ==
    InitAgent /\ PinLife /\ PinMail /\ PinSkills /\ PinChat /\ PinTeach
    /\ PinLoad /\ PinExtract /\ PinFront /\ PinTools
    /\ InitButtons

SpecButtons == InitButtonsSpec /\ [][NextButtons]_vars

(***************************************************************************)
(* Properties                                                              *)
(***************************************************************************)
\* The user messages the current ask appended as follow-up prompts
FollowUps ==
    { i \in (ask_base + 1)..Len(messages) :
        messages[i].role = "user" /\ messages[i].content.text = "follow_up" }

\* C1: ask(input, auto, max_loops = N) issues at most N follow-up turns after
\* the first response, so it appends at most N + 1 user/assistant pairs,
\* whatever the LLM replies; once it has returned the counts stay so.
C1_FollowUpBound ==
    apc # "idle" =>
        /\ Cardinality(FollowUps) <= max_loops
        /\ loop_count = Cardinality(FollowUps)
        /\ Len(messages) - ask_base <= 2 * (max_loops + 1)

\* C1 witness: the cap ended the loop while code was still pending
C1_Witness ==
    /\ apc = "returned"
    /\ max_loops = MaxLoops
    /\ loop_count = max_loops
    /\ should_ask_user(messages)

\* The fenced blocks of a reply whose language contains python or bash
HasPythonOrBash(reply) ==
    \E j \in 1..Len(reply) :
        /\ reply[j].language # NoLanguage
        /\ \/ Contains(s_python, Lower(reply[j].language))
           \/ Contains(s_bash, Lower(reply[j].language))

\* C2: a stored assistant reply carries a pending tool call only if one of
\* its fenced blocks has a language containing python or bash; otherwise its
\* tools list is empty (and should_ask_user is false on it).
C2_ToolsOnlyForPythonOrBash ==
    \A i \in 1..Len(messages) :
        (messages[i].role = "assistant" /\ ~HasPythonOrBash(messages[i].content.blocks))
            => GetTools(messages[i]) = <<>>

\* The outcome a Python print(v) has when the names defined so far are ns
Visible(ns, v) ==
    IF ns[v] # Undefined THEN Out(ns[v], None) ELSE Out(None, "NameError")

\* C3: in local mode a Python execute() that refers to a name sees the value
\* the earlier execute() calls of the executor gave it since the last
\* reset(), and a name-not-found stderr with absent stdout when there is none
\* (the runner subprocess itself failing aside).
C3_LocalStatePersists ==
    (/\ lpc = "idle"
     /\ ~use_docker
     /\ last_call.op = "print"
     /\ last_out.stderr # "runner failed")
        => last_out = Visible(assigned, last_call.var)

\* C4: in a container session the server runs a request in the namespace
\* the earlier requests of the session left: a reference to a name gives the
\* value the last assignment run since the session started gave it.
C4_ContainerStatePersists ==
    (spc = "write_out" /\ s_code.code.op = "print")
        => s_out = Visible(srv_assigned, s_code.code.var)

\* C4 witness: the second request of a session prints what the first one
\* assigned
C4_Witness ==
    /\ spc = "write_out"
    /\ s_code.code.op = "print"
    /\ s_code.req = 2
    /\ srv_assigned[s_code.code.var] # Undefined
    /\ s_out.stdout = srv_assigned[s_code.code.var]

\* C5: the pair a container-mode execute() returns from output.json was
\* produced by the server running the code of that same request.
C5_OwnOutput ==
    (hpc = "returned" /\ result.from # 0) => result.from = req

\* The host is inside a call of _execute_in_docker
InCall == hpc \notin {"idle", "returned"}

\* The host's call ends by the timeout of the poll loop
TimesOut ==
    /\ InCall
    /\ hpc' = "returned"
    /\ result' = Result(None, "Execution timeout", 0)

\* C6: a container-mode Python execute() returns whatever the server does:
\* the poll loop runs at most PollLimit times, a call ends by
\* (None, "Execution timeout") exactly when PollLimit polls have passed with
\* no done file of the request accepted, and every call that is entered
\* returns.
C6_ExecuteReturns ==
    /\ [](polls <= PollLimit)
    /\ [][TimesOut => (hpc = "test_done" /\ polls = PollLimit)]_vars
    /\ [][(InCall /\ polls = PollLimit /\ hpc' # hpc) => TimesOut]_vars
    /\ (InCall ~> hpc = "returned")

\* C6 witness: a call has returned the timeout while the server still holds
\* its request
C6_Witness ==
    /\ hpc = "returned"
    /\ result = Result(None, "Execution timeout", 0)
    /\ s_code.present
    /\ s_code.req = req

\* C7: cleanup() never raises, and a second cleanup() on the same session
\* calls no method of a kernel or of a container.
C7_CleanupIdempotent ==
    /\ ~raised
    /\ (lpc = "c_end" /\ ncleanup >= 2) => ~acted

\* C8: when cleanup() of a container-mode executor whose container was
\* running returns (no daemon call having failed for a reason of the
\* daemon's), the tag latest_state exists and holds the filesystem of that
\* container.
C8_StateSaved ==
    (/\ lpc = "c_end"
     /\ use_docker
     /\ pre.running
     /\ ~faulted)
        => (latest_state.exists /\ latest_state.fs = pre.fs)

\* C9: when reset() of a container-mode executor returns, the executor holds
\* a new container whose namespace is empty and whose filesystem has none of
\* the files of the container it held before.
C9_ResetIsFresh ==
    (/\ lpc = "r_end"
     /\ use_docker
     /\ pre.running
     /\ ~faulted)
        => (/\ container > NoneH
            /\ container # pre.cid
            /\ containers[container].ns = EmptyNs
            /\ containers[container].fs \cap pre.fs = {})

\* C10: between two operations, every running container and every running
\* kernel the current instance started is the one whose handle it holds.
C10_OneLiveSession ==
    lpc = "idle" =>
        /\ \A c \in 1..MaxContainers :
              (containers[c].status = "running" /\ containers[c].owner = inst)
                  => c = container
        /\ \A k \in 1..MaxKernels :
              (kernels[k].status = "running" /\ kernels[k].owner = inst)
                  => k = km

\* C11: after learn(name, usage, code, requirements), get_skill(name) is a
\* skill with that usage and those requirements, and get_skill_code(name)
\* returns exactly code.
C11_LearnRoundTrip ==
    sk_last.op = "learn" =>
        /\ Index(sk_skills, sk_last.name) # 0
        /\ get_skill(sk_skills, sk_last.name).usage = sk_last.usage
        /\ get_skill(sk_skills, sk_last.name).requirements = sk_last.requirements
        /\ get_skill_code(sk_files, get_skill(sk_skills, sk_last.name))
               = sk_last.code

\* The names that are keys of SkillManager.skills
KnownNames == {sk_skills[i].name : i \in DOMAIN sk_skills}

\* The stored skill of a known name
Stored(m, name) == m[CHOOSE i \in DOMAIN m : m[i].name = name]

\* The step is a call of improve_skill
ImproveCalled == sk_hist' # sk_hist /\ sk_last'.op = "improve"

\* C12: improve_skill on a known name leaves the skill's name and file_path
\* unchanged and sets its usage, its requirements and the code on disk to
\* the new values.
C12_ImproveKnown ==
    [][(ImproveCalled /\ sk_last'.name \in KnownNames) =>
          LET before == Stored(sk_skills, sk_last'.name)
              after == Stored(sk_skills', sk_last'.name)
          IN /\ after.name = before.name
             /\ after.file_path = before.file_path
             /\ after.usage = sk_last'.usage
             /\ after.requirements = sk_last'.requirements
             /\ sk_files'[before.file_path] = sk_last'.code
             /\ sk_last'.ret = <<after>>]_vars

\* improve_skill has replaced the usage, the requirements and the code of a
\* skill that was learnt with other values
C12_Witness ==
    /\ Len(sk_hist) = 2
    /\ sk_hist[1].op = "learn"
    /\ sk_last.op = "improve"
    /\ sk_last.name = sk_hist[1].name
    /\ sk_last.requirements # sk_hist[1].requirements
    /\ Truthy(sk_last.requirements)
    /\ sk_last.usage = "u2"
    /\ sk_last.code = c_plain
    /\ sk_last.ret # <<>>

\* C13: improve_skill with a name that is not known returns None and changes
\* nothing: no code file is written, and requirements.txt, the in-memory map
\* and the manifest are as before.
C13_ImproveUnknown ==
    [][(ImproveCalled /\ sk_last'.name \notin KnownNames) =>
          /\ sk_last'.ret = <<>>
          /\ UNCHANGED <<sk_skills, sk_files, sk_reqfile, sk_manifest>>]_vars

\* improve_skill was called with an unknown name whose file name is that of
\* a stored skill, and with requirements the file does not hold
C13_Witness ==
    /\ sk_last.op = "improve"
    /\ sk_last.ret = <<>>
    /\ sk_last.name \notin KnownNames
    /\ \E n \in KnownNames : FilePath(n) = FilePath(sk_last.name)
    /\ \E r \in ReqSet(sk_last.requirements) : r \notin Range(sk_reqfile)

\* The calls made on the directory are learn calls only
OnlyLearns == \A i \in DOMAIN sk_hist : sk_hist[i].op = "learn"

\* The deduplicated, sorted union of two requirement lists
SortedUnion(A, B) == SortedStrs(ReqSet(A) \cup ReqSet(B))

\* C14: after learning two skills with overlapping requirement lists on a
\* fresh directory, requirements.txt holds the deduplicated, sorted union of
\* the two lists, whichever skill was learnt first, and learning one of the
\* two again does not change it.
C14_RequirementsUnion ==
    (/\ OnlyLearns
     /\ Len(sk_hist) >= 2
     /\ sk_hist[1].name # sk_hist[2].name
     /\ ReqSet(sk_hist[1].requirements) \cap ReqSet(sk_hist[2].requirements) # {}
     /\ Len(sk_hist) = 3 => sk_hist[3] \in {sk_hist[1], sk_hist[2]})
    => sk_reqfile = SortedUnion(sk_hist[1].requirements, sk_hist[2].requirements)

\* The requirements of all skills currently stored
StoredRequirements ==
    UNION {ReqSet(sk_skills[i].requirements) : i \in DOMAIN sk_skills}

\* C15: after any sequence of learn and improve_skill calls, requirements.txt
\* holds exactly the deduplicated, sorted union of the requirements of the
\* skills currently stored.
C15_RequirementsOfStored == sk_reqfile = SortedStrs(StoredRequirements)

\* The step is a learn, or an improve_skill that returned a skill
Mutated ==
    \/ sk_last.op = "learn"
    \/ sk_last.op = "improve" /\ sk_last.ret # <<>>

\* C16 as stated: after every learn and every successful improve_skill the
\* skills listed in manifest.json are exactly the skills of the in-memory
\* map, with the same usage, file_path and requirements, and a manager
\* constructed afterwards on the directory loads that same map.
C16_ManifestIsMap ==
    Mutated =>
        /\ sk_manifest = sk_skills
        /\ load_skills(sk_manifest) = sk_skills

\* The in-memory map as the manifest lists it: requirements that are None
\* are listed as the empty list
Listed(m) ==
    [i \in DOMAIN m |->
        [m[i] EXCEPT !.requirements =
            IF m[i].requirements = NoReqs THEN <<>> ELSE m[i].requirements]]

\* C16: after every learn and every successful improve_skill the skills
\* listed in manifest.json are exactly the skills of the in-memory map, in
\* its order, with the same usage and file_path and with the same
\* requirements except that None is listed as the empty list; a manager
\* constructed afterwards on the directory loads the map so listed.
C16_ManifestIsListedMap ==
    /\ Mutated =>
          /\ sk_manifest = Listed(sk_skills)
          /\ load_skills(sk_manifest) = Listed(sk_skills)
    /\ sk_last.op = "init" => sk_skills = sk_manifest

\* A manager was constructed on a directory whose manifest lists two skills,
\* one of them stored with requirements
C16_Witness ==
    /\ sk_last.op = "init"
    /\ Len(sk_manifest) = 2
    /\ Len(sk_skills) = 2
    /\ \E i \in DOMAIN sk_skills : Truthy(sk_skills[i].requirements)

\* s is an initial part of t
IsPrefix(s, t) == Len(s) <= Len(t) /\ SubSeq(t, 1, Len(s)) = s

C18_OnlyRoleAndContent ==
    \A i \in DOMAIN sent : DOMAIN sent[i] = {"role", "content"}

\* The concatenation of the contents of a sequence of chunks
RECURSIVE Concatenated(_)
Concatenated(chunks) ==
    IF chunks = <<>> THEN <<>>
    ELSE Head(chunks).content.blocks \o Concatenated(Tail(chunks))

\* The generator is bound to the history and no other call has appended to
\* the history since the streaming turn began
Undisturbed == sgen.bound /\ sgen.since = 0

\* C19: in a streaming turn every chunk yielded before the last has
\* done=false; the last has done=true and carries the concatenation of the
\* partial contents and the tools derived from it; the assistant message is
\* appended to the history exactly when the generator is consumed to its
\* end, and a consumer that stops early leaves the history ending in the
\* user message with no pending tools.
C19_Streaming ==
    /\ [](\A i \in DOMAIN yielded :
              yielded[i].done <=> (i = Len(yielded) /\ sgen.state = "done"))
    /\ [](sgen.state = "done" =>
              LET final == yielded[Len(yielded)]
              IN /\ final.content.blocks
                        = Concatenated(SubSeq(yielded, 1, Len(yielded) - 1))
                 /\ final.tools = create_tool_response(final.content.blocks))
    /\ []((sgen.state = "open" /\ Undisturbed) =>
              /\ messages[Len(messages)].role = "user"
              /\ ~should_ask_user(messages))
    /\ []((sgen.state = "done" /\ Undisturbed) =>
              messages[Len(messages)] = yielded[Len(yielded)])
    /\ [][(StreamNext /\ sgen'.state = "open") => messages' = messages]_vars
    /\ [][(StreamNext /\ sgen'.state = "done" /\ sgen.bound) =>
              messages' = Append(messages, yielded'[Len(yielded')])]_vars
    /\ [][(StreamAbandon /\ Undisturbed) =>
              /\ messages' = messages
              /\ messages'[Len(messages')].role = "user"
              /\ ~should_ask_user(messages')]_vars

\* A generator was consumed to its end after two partial chunks and its
\* final chunk, which carries tools, is the last message of the history
C19_Witness ==
    /\ sgen.state = "done"
    /\ Undisturbed
    /\ Len(yielded) >= 3
    /\ yielded[Len(yielded)].tools # <<>>
    /\ messages[Len(messages)] = yielded[Len(yielded)]

\* C20: learn_that_skill and improve_that_skill each make at most 3 attempts
\* per call; when all 3 fail the call raises; and the Skill Manager's learn
\* / improve_skill is called at most once per call, only after an attempt
\* whose reply parsed successfully.
C20_ThreeAttemptsOneManagerCall ==
    /\ [](/\ t_attempts <= MaxRetries
          /\ t_calls <= 1
          /\ retry_count >= MaxRetries => (t_pc = "idle" /\ t_outcome = "raised"))
    /\ [][t_calls' > t_calls => t_parsed']_vars

\* The step is a call of learn_that_skill or improve_that_skill
TeachCalled == t_ncalls' = t_ncalls + 1

\* C22: with fewer than 2 messages in the history, learn_that_skill and
\* improve_that_skill raise before any LLM turn, and leave the history and
\* all skills as they were.
C22_NeedsHistory ==
    /\ [][(TeachCalled /\ Len(messages) < 2) =>
              /\ t_outcome' = "raised"
              /\ t_pc' = "idle"
              /\ UNCHANGED <<messages, skillVars>>]_vars
    /\ []((t_pc = "loop" \/ t_attempts > 0) => Len(messages) >= 2)

\* Both calls were made on a chat that holds the system message alone, and
\* the second, an improve_that_skill, raised
C22_Witness ==
    /\ t_ncalls = 2
    /\ t_op = "improve"
    /\ t_outcome = "raised"
    /\ t_attempts = 0
    /\ Len(messages) = 1

\* The step is a pass of the loop of improve_that_skill
ImprovePass == t_op = "improve" /\ t_attempts' = t_attempts + 1

\* The name line of the reply stored last
LastHeader(msgs) == msgs[Len(msgs)].content.text

\* The line "SKILL NAME: ..." that names a skill
HeaderOf(name) ==
    CASE name = n_c -> "SKILL NAME: c"
      [] name = n_a_b -> "SKILL NAME: a_b"
      [] name = n_A_b -> "SKILL NAME: A b"
      [] OTHER -> "no such header"

LoadNames == {sk_skills[i].name : i \in DOMAIN sk_skills}

\* How often the code of a skill was executed in the sandbox since the reset
TimesLoaded(n) ==
    Cardinality({i \in DOMAIN ld_exec : ld_exec[i] = Exec("python", n)})

\* How often the prompts sent since the reset describe a skill
TimesDescribed(n) ==
    Cardinality({p \in (DOMAIN ld_prompts) \X (1..MaxLines) :
                    /\ p[2] \in DOMAIN ld_prompts[p[1]]
                    /\ ld_prompts[p[1]][p[2]] = n})

\* C23: within one conversation (between resets) the code of a skill is
\* loaded into the sandbox at most once and described in an outgoing prompt
\* at most once, whatever skills the relevance selection returns.
C23_SkillShownOnce ==
    \A n \in LoadNames : TimesLoaded(n) <= 1 /\ TimesDescribed(n) <= 1

\* The fenced blocks the text was written from, in document order
FencedBlocks == SelectSeq(ex_doc, LAMBDA it : it.kind = "fence")

\* C24: extract_snippets returns exactly one snippet per fenced block of
\* the input, in document order, a block with an empty body included (its
\* content is ""), and the empty list when the input has no fence.
C24_OneSnippetPerBlock ==
    ex_done =>
        /\ Len(ex_out) = Len(FencedBlocks)
        /\ \A k \in DOMAIN ex_out :
              ex_out[k].content = Strip(FencedBlocks[k].body)

C24_Witness ==
    /\ ex_done
    /\ ex_doc = << FencedBlock(<<"p", "y">>, <<"y">>), Para(<<"x">>),
                   FencedBlock(<<>>, <<>>) >>
    /\ Len(ex_out) = 2
    /\ ex_out[1].content = <<"y">>
    /\ ex_out[2].content = <<>>

\* C25: the language of every snippet equals the info string of its block
\* exactly (absent when the fence has none) and its content equals the body
\* with leading and trailing whitespace removed, whatever text precedes the
\* block, characters outside ASCII included.
C25_LanguageIsInfoString ==
    ex_done =>
        \A k \in DOMAIN ex_out \cap DOMAIN FencedBlocks :
            ex_out[k] = CodeSnippet(IF FencedBlocks[k].info = <<>> THEN NoLanguage
                                    ELSE FencedBlocks[k].info,
                                    Strip(FencedBlocks[k].body))

\* C26: once the Agent is constructed, both front ends call agent.cleanup()
\* on every path by which they stop: %exit, a keyboard interrupt, the
\* follow-up cap, an exception in the loop, and a failure to create or to
\* start the bot application.
C26_CleanupOnEveryStop ==
    /\ (co_pc = "stopped" /\ co_agent) => co_cleanups >= 1
    /\ (tg_pc = "stopped" /\ tg_agent) => tg_cleanups >= 1

\* C27: the bot never sends a text message longer than 4096 characters; a
\* reply, a follow-up reply or an execution output above that length goes
\* out as a file.
C27_NoLongText ==
    \A i \in DOMAIN tg_sent :
        tg_sent[i].kind = "text" => tg_sent[i].length <= MAX_MESSAGE_LENGTH

\* C29: an exception raised while one user turn is handled (a bot text
\* message, a bot button press, a console line) is caught by the front end
\* and shown as a short generic message, and the front end goes on to the
\* next turn.
C29_TurnExceptionCaught ==
    /\ tg_raised =>
          /\ ~tg_escaped
          /\ tg_sent # <<>> /\ tg_sent[Len(tg_sent)] = Apology
    /\ co_raised \notin {"none", "KeyboardInterrupt", "EOFError"} =>
          co_pc # "stopped" /\ co_shown # "traceback"

\* The server is handling a submission it has read
Handling == spc \in {"remove", "exec", "write_out", "write_done"}

\* C28: the server loop never ends because of a submission; for every
\* input.py it consumes it writes output.json and done; an error inside the
\* server while a submission is handled is reported as stderr in output.json
\* as well as appended to error.log.
C28_ServerAnswersEverySubmission ==
    /\ [](spc \in {"poll", "remove", "exec", "write_out", "write_done"})
    /\ [][((SrvWriteOut \/ SrvWriteDone) /\ spc' = "poll") =>
              /\ f_done' /\ f_output'.present
              /\ f_output'.from = s_code.req]_vars
    /\ [][(Handling /\ f_errlog' > f_errlog) =>
              /\ f_output'.present
              /\ f_output'.from = s_code.req
              /\ f_output'.stderr # None]_vars

\* The step writes a new exec_id, or a new input.py
WritesExecId == f_exec_id' # f_exec_id /\ f_exec_id' # 0
WritesInput == f_input' # f_input /\ f_input'.present

\* C30: for every request the host removes the output.json, done and
\* exec_id of the previous request before it writes the new exec_id, and
\* writes exec_id before input.py; if the removal fails no input.py is
\* written.
C30_RemoveThenIdThenInput ==
    /\ [][(hpc' = "rm_done" /\ hpc # "rm_done") =>
              (hpc = "rm_output" /\ ~f_output'.present)]_vars
    /\ [][(hpc' = "rm_exec_id" /\ hpc # "rm_exec_id") =>
              (hpc = "rm_done" /\ ~f_done')]_vars
    /\ [][(hpc' = "write_id" /\ hpc # "write_id") =>
              (hpc = "rm_exec_id" /\ f_exec_id' = 0)]_vars
    /\ [][WritesExecId => (hpc = "write_id" /\ f_exec_id = 0 /\ f_exec_id' = req)]_vars
    /\ [][WritesInput =>
              /\ hpc = "write_input"
              /\ f_exec_id = req
              /\ f_input'.req = req]_vars
    /\ [][(hpc = "rm_output" /\ hpc' = "returned") =>
              /\ UNCHANGED <<f_input, f_exec_id, f_output, f_done>>
              /\ result'.stderr = "Failed to cleanup previous execution files"]_vars

\* The server has answered the first request, and the second request has
\* removed that answer and written its exec_id and its input.py
C30_Witness ==
    /\ req = 2 /\ hpc = "test_done"
    /\ spc = "poll" /\ srv_assigned # EmptyNs /\ f_errlog = 0
    /\ f_exec_id = 2
    /\ f_input.present /\ f_input.req = 2
    /\ ~f_done /\ ~f_output.present

\* The host has found done in its poll loop and has not yet returned
HostSawDone == hpc \in {"cat_id", "cat_output"}

\* C31: the server deletes input.py before it executes it and writes
\* output.json for a request before it creates done, so whenever the host
\* sees done, output.json is present and complete; and no submitted
\* input.py is executed twice.
C31_DoneMeansOutput ==
    /\ [][(spc' = "exec" /\ spc # "exec") =>
              (spc = "remove" /\ ~f_input'.present)]_vars
    /\ [][(f_done' /\ ~f_done) =>
              (spc = "write_done" /\ s_code.req # 0)]_vars
    /\ [][(f_output' # f_output /\ f_output'.present) =>
              (spc = "write_out" /\ f_output'.from = s_code.req)]_vars
    /\ [](HostSawDone => f_output.present)

\* The history is the system message, then user and assistant in turn
Alternating(roles) ==
    /\ Len(roles) % 2 = 1
    /\ \A i \in DOMAIN roles :
          roles[i] = IF i = 1 THEN "system"
                     ELSE IF i % 2 = 0 THEN "user" ELSE "assistant"

\* C32: every completed get_response call without streaming appends exactly
\* two messages to the history, the user message and then the assistant
\* message, whether or not any skills are known; so after any sequence of
\* such turns the history is the system message followed by user and
\* assistant messages in turn.
C32_TwoMessagesPerTurn ==
    /\ [][((LoadTurn \/ LoadTurnOld) /\ ~ld_raised') =>
              ld_roles' = ld_roles \o <<"user", "assistant">>]_vars
    /\ []Alternating(ld_roles)

\* Two completed turns of agent/base.py with skills in the directory
C32_Witness ==
    /\ ld_impl = "agent/base.py"
    /\ sk_skills # <<>>
    /\ ~ld_raised
    /\ ld_roles = <<"system", "user", "assistant", "user", "assistant">>

\* C33: the skills field stored on a user message lists exactly the skills
\* whose code was loaded into the sandbox and described in that message: no
\* skill already shown in an earlier turn, and no skill skipped because the
\* install of its requirements reported "ERROR:".
C33_RecordedAreShown ==
    \A i \in DOMAIN ld_skills : ld_skills[i] = ld_prompts[i]

\* The result list as C34 describes it: for every executed snippet an
\* Output entry, and an Errors entry after it when stderr is not empty
RECURSIVE OutputPerExecuted(_, _, _)
OutputPerExecuted(snippets, outs, i) ==
    IF i > Len(snippets) THEN <<>>
    ELSE (IF IsExecuted(snippets[i])
          THEN << [kind |-> "Output",
                   text |-> IF outs[i].stdout # None THEN outs[i].stdout ELSE ""] >>
               \o (IF outs[i].stderr # None
                   THEN << [kind |-> "Errors", text |-> outs[i].stderr] >>
                   ELSE <<>>)
          ELSE <<>>)
         \o OutputPerExecuted(snippets, outs, i + 1)

\* C34: execute_tools returns, in snippet order, one Output entry for every
\* snippet it executed (with the empty text when stdout is absent) and an
\* Errors entry after it exactly when the snippet's stderr is not empty;
\* snippets without a language, or whose language contains neither python
\* nor bash, are not executed and add nothing.
C34_OutputPerExecutedSnippet ==
    tl_done => tl_results = OutputPerExecuted(tl_snippets, tl_outs, 1)

\* C40: every executed snippet whose language contains bash is run by the
\* shell path of the Code Executor and every other executed snippet by the
\* Python path; a block whose info string is bash plus more text is never
\* run as Python code.
C40_BashRunsInShell ==
    tl_done =>
        \A k \in DOMAIN tl_calls :
            execute_path(tl_calls[k].language) =
                IF Contains(s_bash, tl_calls[k].language) THEN "bash" ELSE "python"

\* C35: in container-mode cleanup() the failure of one step does not keep
\* the later steps from being attempted: when terminating the server or
\* committing the state image fails, the container is still stopped and
\* removed.
C35_LaterStepsAttempted ==
    /\ [][(lpc = "c_ps" /\ lpc' # "c_ps") => lpc' = "c_reload1"]_vars
    /\ [][(lpc = "c_commit1" /\ lpc' # "c_commit1") =>
              lpc' \in {"c_verify", "c_reload2"}]_vars
    /\ [][(lpc = "c_commit2" /\ lpc' # "c_commit2"
              /\ Exists(containers[container])) => lpc' = "c_stop"]_vars

\* C37: cleanup() of one executor stops and removes only its own container,
\* never the container of another live executor; this includes the cleanup
\* of the Agent's temporary system-info executor while the Agent's main
\* executor runs on the same image.
C37_CleanupTouchesOwnOnly ==
    [][lpc # "idle" =>
          \A c \in 1..MaxContainers :
              containers[c].owner \notin {0, inst} => containers'[c] = containers[c]]_vars


\* C38: learn and improve_skill for one skill never change the code that
\* get_skill_code returns for a skill with a different name, including names
\* that differ only in letter case or in spaces versus underscores.  A step
\* that lengthens sk_hist is one call of learn or improve_skill, and
\* sk_last holds its arguments.
C38_OtherSkillCodeKept ==
    [][sk_hist' # sk_hist =>
          \A i \in DOMAIN sk_skills :
              sk_skills[i].name # sk_last'.name
                  => get_skill_code(sk_files', sk_skills[i])
                        = get_skill_code(sk_files, sk_skills[i])]_vars


\* C39: after the console has consumed a streaming response to its end, the
\* text it has accumulated for display equals the content of the assistant
\* message stored in history: every part of the reply appears exactly once.
C39_DisplayedEqualsStored ==
    (sgen.state = "done" /\ sgen.bound /\ ch_last = "next")
        => stream_response(yielded) = messages[Len(messages)].content.blocks


\* C36: what a Yes button press executes is exactly the tool call that was
\* pending when those buttons were offered: never the tool call of a later
\* reply, and a tool call that has been executed is not executed again by
\* another press.
C36_YesExecutesOffered ==
    /\ \A i \in DOMAIN bt_runs :
          bt_runs[i].executed # 0 => bt_runs[i].executed = bt_runs[i].button
    /\ \A i, j \in DOMAIN bt_runs :
          (i < j /\ bt_runs[i].executed # 0)
              => bt_runs[i].executed # bt_runs[j].executed

====
